---------------------------- MODULE Spec2Model ----------------------------
(***************************************************************************)
(* Aircraft boarding simulation (mcm2007): the cell graph and its          *)
(* construction, the passenger state machine with seat crossing and cell   *)
(* borrowing, and the time-stepped simulation loop of model2.py.           *)
(*                                                                         *)
(* Cells, luggage bins and passengers are Python objects in the source;    *)
(* here they are numbered in creation order (1, 2, ...) and None is 0.     *)
(***************************************************************************)
EXTENDS Integers, Sequences, FiniteSets, TLC

None == 0

Max(a, b) == IF a >= b THEN a ELSE b

Abs(a) == IF a < 0 THEN -a ELSE a

RECURSIVE SumSeq(_)
SumSeq(s) == IF s = <<>> THEN 0 ELSE Head(s) + SumSeq(Tail(s))

Range(s) == {s[i] : i \in 1..Len(s)}

(***************************************************************************)
(* Directions                                                              *)
(***************************************************************************)
directions == {"n", "s", "e", "w"}

opposite(s) ==
    CASE s = "n" -> "s"
      [] s = "s" -> "n"
      [] s = "e" -> "w"
      [] s = "w" -> "e"

ordinal(s) == IF s = "n" \/ s = "w" THEN -1 ELSE 1

(***************************************************************************)
(* The heap.  A world w records, per cell id, the cell's fields; the       *)
(* number of luggage bins allocated so far; per passenger id, the fields   *)
(* a boarder gets at construction; and the list of connect calls made so   *)
(* far (history, used only to state the connect contract).                 *)
(***************************************************************************)
EmptyWorld ==
    [row |-> <<>>, file |-> <<>>, nearest_luggage_bin |-> <<>>,
     major_file |-> <<>>, floor |-> <<>>, connectors |-> <<>>,
     bins |-> 0, calls |-> <<>>,
     target |-> <<>>, sequence_identifier |-> <<>>, aisles_on_plane |-> <<>>]

Cells(w) == 1..Len(w.row)

\* Statements run in order: the heap w is computed before e is.  (The value is e.)
after(w, e) == IF w.bins >= 0 THEN e ELSE e

\* node.__init__: a fresh cell with four empty connectors; its id is the next one.
node(w, row, file, bin) ==
    [w EXCEPT !.row = Append(@, row),
              !.file = Append(@, file),
              !.nearest_luggage_bin = Append(@, bin),
              !.major_file = Append(@, -1),
              !.floor = Append(@, "none"),
              !.connectors = Append(@, [d \in directions |-> None])]

\* luggage_bin.__init__: a fresh bin; its id is the next one.
luggage_bin(w) == [w EXCEPT !.bins = @ + 1]

\* node.connect with the reverse link left out (a plausible slip).
connect_one_way(w, self, direction, destination) ==
    [w EXCEPT !.connectors[self][direction] = destination,
              !.calls = Append(@, <<self, direction, destination>>)]

\* node.connect: link self -> destination and destination -> self.
connect(w, self, direction, destination) ==
    LET c1 == [w.connectors EXCEPT ![self][direction] = destination]
        c2 == [c1 EXCEPT ![destination][opposite(direction)] = self]
    IN [w EXCEPT !.connectors = c2,
                 !.calls = Append(@, <<self, direction, destination>>)]

is_aisle(w, c) == w.connectors[c]["n"] # None \/ w.connectors[c]["s"] # None

is_seat(w, c) == ~is_aisle(w, c)

RECURSIVE shoot_off(_, _, _)
shoot_off(w, c, direction) ==
    IF w.connectors[c][direction] # None
    THEN shoot_off(w, w.connectors[c][direction], direction)
    ELSE c

RECURSIVE trail(_, _, _)
trail(w, c, direction) ==
    IF w.connectors[c][direction] # None
    THEN <<c>> \o trail(w, w.connectors[c][direction], direction)
    ELSE <<c>>

(***************************************************************************)
(* aisle: a south-linked chain of rows cells at one file, a new bin every  *)
(* bin_row_span rows.  Python's nodes tuple is 0-indexed: nodes[r] there   *)
(* is nodes[r + 1] here.                                                   *)
(***************************************************************************)
RECURSIVE aisle_loop(_, _, _, _, _, _, _, _, _)
aisle_loop(w, i, rows, file, last_bin, last_bin_row, p, nodes, bin_row_span) ==
    after(w,
        IF i >= rows
        THEN [w |-> w, nodes |-> nodes, tail |-> p]
        ELSE LET fresh == i > last_bin_row + bin_row_span - 1
                 w1 == IF fresh THEN luggage_bin(w) ELSE w
                 b == IF fresh THEN w1.bins ELSE last_bin
                 lbr == IF fresh THEN i ELSE last_bin_row
                 n == Len(w1.row) + 1
                 w2 == connect(node(w1, i, file, b), p, "s", n)
             IN aisle_loop(w2, i + 1, rows, file, b, lbr, n, Append(nodes, n), bin_row_span))

aisle(w, rows, file, bin_row_span) ==
    LET w1 == luggage_bin(w)
        head == Len(w1.row) + 1
        w2 == node(w1, 0, file, w1.bins)
        r == aisle_loop(w2, 1, rows, file, w1.bins, 1, head, <<head>>, bin_row_span)
    IN [w |-> r.w,
        aisle |-> [head |-> head, file |-> file, nodes |-> r.nodes,
                   rows |-> rows, tail |-> r.tail]]

\* aisle.add_window_row: files seats chained from the aisle cell of the row.
RECURSIVE window_loop(_, _, _, _, _, _, _, _)
window_loop(w, base, i, files, row, afile, direction, major_file) ==
    after(w,
        IF i >= files
        THEN [w |-> w, cell |-> base]
        ELSE LET n == Len(w.row) + 1
                 w1 == node(w, row, afile + (i + 1) * ordinal(direction), None)
                 w2 == connect(w1, base, direction, n)
                 w3 == [w2 EXCEPT !.major_file[n] = major_file]
             IN window_loop(w3, n, i + 1, files, row, afile, direction, major_file))

add_window_row(w, a, row, direction, files, major_file) ==
    window_loop(w, a.nodes[row + 1], 0, files, row, a.file, direction, major_file)

\* aisle.add_bridge_row: a window row whose last seat is linked to the bridged aisle.
add_bridge_row(w, a, bridged_aisle, row, direction, files, major_file) ==
    LET r == add_window_row(w, a, row, direction, files, major_file)
    IN [w |-> connect(r.w, r.cell, direction, bridged_aisle.nodes[row + 1]),
        cell |-> bridged_aisle.nodes[row + 1]]

(***************************************************************************)
(* boarder.__init__ (construction-time fields): the passenger is bound to  *)
(* its target seat and told the aisles of its plane (their files).         *)
(***************************************************************************)
boarder(w, target, aisle_files) ==
    [w EXCEPT !.target = Append(@, target),
              !.sequence_identifier = Append(@, 0),
              !.aisles_on_plane = Append(@, aisle_files)]

(***************************************************************************)
(* grid_plane_geometry.__init__                                            *)
(***************************************************************************)
\* sum (file_count_list [0:n]) for the Python slice of the first n entries.
RECURSIVE SumFirst(_, _)
SumFirst(f, n) == IF n <= 0 THEN 0 ELSE f[n] + SumFirst(f, n - 1)

\* self.aisles = [aisle (rows + 1, sum (file_count_list [0:i+1]) + i, ...) for i in range (len - 1)]
RECURSIVE build_aisles(_, _, _, _, _, _)
build_aisles(w, i, rows, file_count_list, bin_row_span, aisles) ==
    after(w,
        IF i >= Len(file_count_list) - 1
        THEN [w |-> w, aisles |-> aisles]
        ELSE LET r == aisle(w, rows + 1, SumFirst(file_count_list, i + 1) + i, bin_row_span)
             IN build_aisles(r.w, i + 1, rows, file_count_list, bin_row_span,
                             Append(aisles, r.aisle)))

\* for aisle_index in range (1, len (self.aisles)): bridge aisle_index - 1 to aisle_index.
RECURSIVE bridge_loop(_, _, _, _, _)
bridge_loop(w, aisle_index, aisles, row, file_count_list) ==
    after(w,
        IF aisle_index >= Len(aisles)
        THEN w
        ELSE LET r == add_bridge_row(w, aisles[aisle_index], aisles[aisle_index + 1], row,
                                     "e", file_count_list[aisle_index + 1], aisle_index)
             IN bridge_loop(r.w, aisle_index + 1, aisles, row, file_count_list))

\* row without the walk to the west end: the row from the first aisle eastward.
row_east(w, aisles, index) == trail(w, aisles[1].nodes[index + 1], "e")

\* grid_plane_geometry.row: the physical row, westmost cell first.
row_of(w, aisles, index) == trail(w, shoot_off(w, aisles[1].nodes[index + 1], "w"), "e")

\* seat_passengers without the filter: one boarder per cell of the list.
RECURSIVE seat_every_cell(_, _, _, _)
seat_every_cell(w, cells, aisle_files, passengers) ==
    after(w,
        IF cells = <<>>
        THEN [w |-> w, passengers |-> passengers]
        ELSE seat_every_cell(boarder(w, Head(cells), aisle_files), Tail(cells), aisle_files,
                             Append(passengers, Len(w.target) + 1)))

\* one boarder per cell of the list that has no north or south connector.
RECURSIVE seat_passengers(_, _, _, _)
seat_passengers(w, cells, aisle_files, passengers) ==
    after(w,
        IF cells = <<>>
        THEN [w |-> w, passengers |-> passengers]
        ELSE IF is_aisle(w, Head(cells))
             THEN seat_passengers(w, Tail(cells), aisle_files, passengers)
             ELSE seat_passengers(boarder(w, Head(cells), aisle_files), Tail(cells), aisle_files,
                                  Append(passengers, Len(w.target) + 1)))

\* for row in range (1, rows + 1): west window row, bridges, east window row, passengers.
RECURSIVE rows_loop(_, _, _, _, _, _)
rows_loop(w, row, rows, aisles, file_count_list, passengers) ==
    after(w,
        IF row > rows
        THEN [w |-> w, passengers |-> passengers]
        ELSE LET n == Len(file_count_list)
                 w1 == add_window_row(w, aisles[1], row, "w", file_count_list[1], 0).w
                 w2 == bridge_loop(w1, 1, aisles, row, file_count_list)
                 w3 == add_window_row(w2, aisles[Len(aisles)], row, "e",
                                      file_count_list[n], Len(aisles)).w
                 r == seat_passengers(w3, row_of(w3, aisles, row),
                                      [k \in 1..Len(aisles) |-> aisles[k].file], passengers)
             IN rows_loop(r.w, row + 1, rows, aisles, file_count_list, r.passengers))

\* for i in range (len (self.passengers)): self.passengers [i].sequence_identifier = i
reindex(w, passengers) ==
    [w EXCEPT !.sequence_identifier =
        [q \in 1..Len(@) |->
            IF \E i \in 1..Len(passengers) : passengers[i] = q
            THEN (CHOOSE i \in 1..Len(passengers) : passengers[i] = q) - 1
            ELSE @[q]]]

grid_plane_geometry(w, rows, file_count_list, bin_row_span) ==
    LET a == build_aisles(w, 0, rows, file_count_list, bin_row_span, <<>>)
        w1 == bridge_loop(a.w, 1, a.aisles, 0, file_count_list)
        r == rows_loop(w1, 1, rows, a.aisles, file_count_list, <<>>)
    IN [kind |-> "grid",
        w |-> reindex(r.w, r.passengers),
        aisles |-> a.aisles,
        start_location |-> a.aisles[1].head,
        passengers |-> r.passengers,
        rows |-> rows + 1,
        parts |-> <<>>]

\* a geometry as another geometry holds it: the object without the heap.
Part(g) == [kind |-> g.kind, aisles |-> g.aisles, start_location |-> g.start_location,
            passengers |-> g.passengers, rows |-> g.rows]

(***************************************************************************)
(* combined_plane_geometry.__init__ (north and south fuselage sections)    *)
(***************************************************************************)
\* the default binding_function: north.aisles [x].tail.connect (south, south.aisles [x].head)
RECURSIVE binding_function(_, _, _, _)
binding_function(w, north, south, x) ==
    after(w,
        IF x > Len(north.aisles)
        THEN w
        ELSE binding_function(connect(w, north.aisles[x].tail, "s", south.aisles[x].head),
                              north, south, x + 1))

\* max ([p.sequence_identifier for p in north_geometry.passengers])
max_sequence_identifier(w, passengers) ==
    CHOOSE m \in {w.sequence_identifier[q] : q \in Range(passengers)} :
        \A q \in Range(passengers) : w.sequence_identifier[q] <= m

\* for p in south_geometry.passengers: p.sequence_identifier += max_in_north; p.aisles_on_plane = ...
resequence(w, north, south) ==
    LET max_in_north == max_sequence_identifier(w, north.passengers)
        north_files == [k \in 1..Len(north.aisles) |-> north.aisles[k].file]
    IN [w EXCEPT !.sequence_identifier =
                     [q \in 1..Len(@) |->
                         IF q \in Range(south.passengers) THEN @[q] + max_in_north ELSE @[q]],
                 !.aisles_on_plane =
                     [q \in 1..Len(@) |->
                         IF q \in Range(south.passengers) THEN north_files ELSE @[q]]]

\* for n in cells: n.row += by
RECURSIVE bump_rows(_, _, _)
bump_rows(w, cells, by) ==
    after(w,
        IF cells = <<>> THEN w
        ELSE bump_rows([w EXCEPT !.row[Head(cells)] = @ + by], Tail(cells), by))

\* for row_index in range (south_geometry.rows): for n in south_geometry.row (row_index): ...
RECURSIVE renumber_rows(_, _, _, _)
renumber_rows(w, south, row_index, by) ==
    after(w,
        IF row_index >= south.rows THEN w
        ELSE renumber_rows(bump_rows(w, row_of(w, south.aisles, row_index), by),
                           south, row_index + 1, by))

combined_plane_geometry(w, north, south) ==
    LET w1 == binding_function(w, north, south, 1)
        w2 == resequence(w1, north, south)
        w3 == renumber_rows(w2, south, 0, north.rows)
        w4 == binding_function(w3, north, south, 1)
    IN [kind |-> "combined",
        w |-> w4,
        aisles |-> north.aisles,
        start_location |-> None,
        passengers |-> north.passengers \o south.passengers,
        rows |-> north.rows + south.rows,
        parts |-> <<Part(north), Part(south)>>]

(***************************************************************************)
(* two_floor_plane_geometry.__init__                                       *)
(***************************************************************************)
\* for cell in cells: cell.floor = floor
RECURSIVE tag_cells(_, _, _)
tag_cells(w, cells, floor) ==
    after(w,
        IF cells = <<>> THEN w
        ELSE tag_cells([w EXCEPT !.floor[Head(cells)] = floor], Tail(cells), floor))

\* for row in range (geometry.rows): for cell in geometry.row (row): cell.floor = floor
RECURSIVE tag_floor(_, _, _, _)
tag_floor(w, g, row, floor) ==
    after(w,
        IF row >= g.rows THEN w
        ELSE tag_floor(tag_cells(w, row_of(w, g.aisles, row), floor), g, row + 1, floor))

two_floor_plane_geometry(w, lower_geometry, upper_geometry) ==
    [kind |-> "two_floor",
     w |-> tag_floor(tag_floor(w, lower_geometry, 0, "lower"), upper_geometry, 0, "upper"),
     aisles |-> <<>>,
     start_location |-> lower_geometry.start_location,
     passengers |-> lower_geometry.passengers \o upper_geometry.passengers,
     rows |-> lower_geometry.rows,
     parts |-> <<Part(lower_geometry), Part(upper_geometry)>>]

\* Two grids built one after the other in the same heap, then joined north to south.
combined_grids(c1, c2) ==
    LET north == grid_plane_geometry(EmptyWorld, c1.rows, c1.file_count_list, c1.bin_row_span)
        south == grid_plane_geometry(north.w, c2.rows, c2.file_count_list, c2.bin_row_span)
    IN combined_plane_geometry(south.w, north, south)

\* Two grids built one after the other in the same heap, then stacked.
two_floor_grids(c1, c2) ==
    LET lower == grid_plane_geometry(EmptyWorld, c1.rows, c1.file_count_list, c1.bin_row_span)
        upper == grid_plane_geometry(lower.w, c2.rows, c2.file_count_list, c2.bin_row_span)
    IN two_floor_plane_geometry(upper.w, lower, upper)

(***************************************************************************)
(* Bounds of the model.                                                    *)
(***************************************************************************)
\* SS, AS, SA and AA each return a value in 0..MaxCost.
MaxCost == 1

\* The tick loop is followed up to this simulated time.  With delays up to MaxCost = 1
\* on SimPlanes every run still in the loop at this time is Wedged.
MaxTime == 26

\* Grid geometries are built with 1..MaxRows rows of seats.
MaxRows == 2

\* The values number_of_bags_function returns.
BagCounts == {0, 1}

\* The values bin_load_delay_function returns.
BinDelays == {0, 1}

\* The values boarding_delay_function returns.
BoardingDelays == {0, 1}

\* The values of run's time_step parameter.
TimeSteps == {1}

\* Parameters of a grid: [rows, file_count_list, bin_row_span].
Grid(rows, file_count_list, bin_row_span) ==
    [rows |-> rows, file_count_list |-> file_count_list, bin_row_span |-> bin_row_span]

\* The cabins the simulation is run on: a window bank of three west of one aisle; a bank
\* of three east of two aisles; and a bank of two joined north of a bank of one.
SimPlanes ==
    { grid_plane_geometry(EmptyWorld, 1, <<3, 0>>, 2),
      grid_plane_geometry(EmptyWorld, 1, <<0, 0, 3>>, 2),
      combined_grids(Grid(1, <<2, 0>>, 2), Grid(1, <<1, 0>>, 2)) }

\* The seat banks geometries are built with: small ones and those of the planes of
\* the source (airbus_320, boeing_767, airbus_a300_600, boeing_747).
FileCountLists ==
    { <<1, 1>>, <<3, 0>>, <<1, 0, 2>>, <<3, 3>>, <<2, 2, 2>>, <<2, 3, 2>>, <<2, 4, 2>>,
      <<3, 4, 3>> }

GridConfigs == {Grid(r, f, n) : r \in 1..MaxRows, f \in FileCountLists, n \in {2}}

(***************************************************************************)
(* State                                                                   *)
(***************************************************************************)
VARIABLES
    plane,                   \* the built geometry (with its world of cells and boarders)
    cost,                    \* the supplied functions: the set of values each may return
    time_step,               \* run's time_step parameter
    current_occupant,        \* node.current_occupant, per cell
    current_load,            \* luggage_bin.current_load, per bin
    location,                \* boarder.location, per passenger (None before boarding)
    personal_delay_counter,  \* boarder.personal_delay_counter
    seek_phase,              \* boarder.seek_phase
    number_of_bags,          \* boarder.number_of_bags
    borrowed_cells,          \* boarder.borrowed_cells
    needed_to_wait,          \* boarder.needed_to_wait
    errors,                  \* kinds of debug (debugging.error, ...) messages written so far
    crashed,                 \* an exception has left run
    currently_unboarded,     \* run's list of the same name (the roster list itself)
    queue,                   \* run's queue
    currently_unfinished,    \* run's active list
    retired,                 \* history: passengers removed from currently_unfinished
    time,                    \* run's time
    next_boarding,           \* run's next_boarding
    delete_necessary,        \* run's flag of the same name
    pc,                      \* position in run
    cursor,                  \* index of the for loop over currently_unfinished
    last                     \* history: what the last action did

vars ==
    <<plane, cost, time_step, current_occupant, current_load, location,
      personal_delay_counter, seek_phase, number_of_bags, borrowed_cells, needed_to_wait,
      errors, crashed, currently_unboarded, queue, currently_unfinished, retired, time,
      next_boarding, delete_necessary, pc, cursor, last>>

W == plane.w

Passengers == 1..Len(W.target)

find_aisle == 0

find_row == 1

find_seat == 2

(***************************************************************************)
(* The part of the state a passenger's step reads and writes, as a record. *)
(* did and released are history: the branch of step that acted (see mark)  *)
(* and the borrowed cells the step gave back.                              *)
(***************************************************************************)
Mem ==
    [current_occupant |-> current_occupant,
     current_load |-> current_load,
     location |-> location,
     personal_delay_counter |-> personal_delay_counter,
     seek_phase |-> seek_phase,
     number_of_bags |-> number_of_bags,
     borrowed_cells |-> borrowed_cells,
     needed_to_wait |-> needed_to_wait,
     errors |-> errors,
     crashed |-> crashed,
     did |-> "nothing",
     released |-> {}]

\* node.available
available(st, c) == st.current_occupant[c] = None

\* enter that also vacates the cell someone comes from.
enter_vacating(st, c, someone) ==
    LET from == st.location[someone]
    IN [st EXCEPT !.current_occupant =
                      [[cell \in DOMAIN @ |-> IF cell = from THEN None ELSE @[cell]]
                          EXCEPT ![c] = someone],
                  !.location[someone] = c]

\* node.enter
enter(st, c, someone) ==
    [st EXCEPT !.current_occupant[c] = someone, !.location[someone] = c]

\* node.leave
leave(st, c, someone) == [st EXCEPT !.current_occupant[c] = None]

\* travel_until_empty counting every occupied cell, borrowed ones included.
RECURSIVE travel_until_vacant(_, _, _)
travel_until_vacant(st, n, direction) ==
    LET x == W.connectors[n][direction]
    IN IF x # None /\ st.current_occupant[x] # None
       THEN 1 + travel_until_vacant(st, x, direction)
       ELSE 0

\* node.travel_until_empty (direction) [0]: located occupants in a row ahead of n.
RECURSIVE travel_until_empty(_, _, _)
travel_until_empty(st, n, direction) ==
    LET x == W.connectors[n][direction]
    IN IF x # None /\ st.current_occupant[x] # None
          /\ st.location[st.current_occupant[x]] = x
       THEN 1 + travel_until_empty(st, x, direction)
       ELSE 0

\* finished without the look at the location.
finished_anywhere(st, p) == st.personal_delay_counter[p] = 0

\* boarder.finished
finished(st, p) == st.location[p] = W.target[p] /\ st.personal_delay_counter[p] = 0

\* closest_aisle without the distances: the first aisle of the plane.
first_aisle(p) == W.aisles_on_plane[p][1]

\* min ([[abs (a.file - self.target.file), a.file] for a in self.aisles_on_plane]) [1]
closest_aisle(p) ==
    LET tf == W.file[W.target[p]]
        files == Range(W.aisles_on_plane[p])
    IN CHOOSE f \in files :
          \A g \in files :
              Abs(f - tf) < Abs(g - tf) \/ (Abs(f - tf) = Abs(g - tf) /\ f <= g)

\* self.needed_to_wait += 1
wait(st, p) == [st EXCEPT !.needed_to_wait[p] = @ + 1]

\* history: names the branch of step that acted.
mark(st, branch) == [st EXCEPT !.did = branch]

\* a dereference of None: the AttributeError leaves step and run.
raise(st) == [st EXCEPT !.crashed = TRUE]

\* debug (debugging.error, ...)
debug_error(st, kind) == [st EXCEPT !.errors = @ \cup {kind}]

(***************************************************************************)
(* boarder.step.  Each part returns the SET of memories it can leave,      *)
(* one per combination of values the delay-sampling calls it makes can     *)
(* return.                                                                 *)
(***************************************************************************)
\* for cell in self.borrowed_cells: ... ; self.borrowed_cells = []
RECURSIVE release_loop(_, _, _)
release_loop(p, st, cells) ==
    IF cells = <<>>
    THEN st
    ELSE release_loop(p,
                      IF st.current_occupant[Head(cells)] = p
                      THEN [st EXCEPT !.current_occupant[Head(cells)] = None,
                                      !.released = @ \cup {Head(cells)}]
                      ELSE debug_error(st, "Inconsistency in cell ownership"),
                      Tail(cells))

\* release_borrowed with the occupants left in place: only the list is emptied.
release_forgetful(p, st) == [st EXCEPT !.borrowed_cells[p] = <<>>]

release_borrowed(p, st) ==
    [release_loop(p, st, st.borrowed_cells[p]) EXCEPT !.borrowed_cells[p] = <<>>]

\* if self.seek_phase == boarder.find_aisle: ...
step_find_aisle(p, st) ==
    IF st.crashed \/ st.seek_phase[p] # find_aisle
    THEN {st}
    ELSE LET here == st.location[p]
             next_direction ==
                 IF W.file[here] < closest_aisle(p) THEN "e"
                 ELSE IF W.file[here] > closest_aisle(p) THEN "w"
                 ELSE "none"
         IN IF next_direction = "none"
            THEN {[st EXCEPT !.seek_phase[p] = find_row]}
            ELSE LET x == W.connectors[here][next_direction]
                 IN IF x = None
                    THEN {raise(st)}
                    ELSE IF available(st, x)
                    THEN {mark(enter(leave([st EXCEPT !.personal_delay_counter[p] = @ + a],
                                           here, p), x, p), "aisle move") : a \in cost.AA}
                    ELSE {mark(wait(st, p), "aisle wait")}

\* step_find_row with the wrong phase constant assigned once the row is reached.
step_find_row_back(p, st) ==
    IF st.crashed \/ st.seek_phase[p] # find_row
    THEN {st}
    ELSE LET here == st.location[p]
             next_direction ==
                 IF W.row[here] < W.row[W.target[p]] THEN "s"
                 ELSE IF W.row[here] > W.row[W.target[p]] THEN "n"
                 ELSE "none"
         IN IF next_direction = "none"
            THEN {[st EXCEPT !.seek_phase[p] = find_aisle]}
            ELSE LET x == W.connectors[here][next_direction]
                 IN IF x = None
                    THEN {debug_error(st, "nonexistent path")}
                    ELSE IF available(st, x)
                    THEN {mark([enter(leave(st, here, p), x, p)
                                   EXCEPT !.personal_delay_counter[p] = @ + a], "row move") :
                              a \in cost.AA}
                    ELSE {mark(wait(st, p), "row wait")}

\* if self.seek_phase == boarder.find_row: ...
step_find_row(p, st) ==
    IF st.crashed \/ st.seek_phase[p] # find_row
    THEN {st}
    ELSE LET here == st.location[p]
             next_direction ==
                 IF W.row[here] < W.row[W.target[p]] THEN "s"
                 ELSE IF W.row[here] > W.row[W.target[p]] THEN "n"
                 ELSE "none"
         IN IF next_direction = "none"
            THEN {[st EXCEPT !.seek_phase[p] = find_seat]}
            ELSE LET x == W.connectors[here][next_direction]
                 IN IF x = None
                    THEN {debug_error(st, "nonexistent path")}
                    ELSE IF available(st, x)
                    THEN {mark([enter(leave(st, here, p), x, p)
                                   EXCEPT !.personal_delay_counter[p] = @ + a], "row move") :
                              a \in cost.AA}
                    ELSE {mark(wait(st, p), "row wait")}

\* the sums load_delay can return for k bags: one bin_load_delay_function value per bag.
RECURSIVE load_delay(_)
load_delay(k) ==
    IF k = 0 THEN {0} ELSE {a + b : a \in cost.bin, b \in load_delay(k - 1)}

\* stow without self.number_of_bags = 0.
stow_keeping(p, st) ==
    LET bin == W.nearest_luggage_bin[st.location[p]]
        bags == st.number_of_bags[p]
    IN IF bags > 0 /\ bin # None
       THEN {[st EXCEPT !.personal_delay_counter[p] = @ + d,
                        !.current_load[bin] = @ + bags] : d \in load_delay(bags)}
       ELSE {st}

\* if self.number_of_bags > 0 and self.location.nearest_luggage_bin: ...
stow(p, st) ==
    LET bin == W.nearest_luggage_bin[st.location[p]]
        bags == st.number_of_bags[p]
    IN IF bags > 0 /\ bin # None
       THEN {[st EXCEPT !.personal_delay_counter[p] = @ + d,
                        !.current_load[bin] = @ + bags,
                        !.number_of_bags[p] = 0] : d \in load_delay(bags)}
       ELSE {st}

\* simple_move without self.borrowed_cells.append (self.location).
simple_move_unlisted(p, st, next_cell) ==
    LET here == st.location[p]
    IN {mark(enter([st EXCEPT !.personal_delay_counter[p] = @ + a], next_cell, p),
             "simple move") :
            a \in (IF is_aisle(W, here) THEN cost.AS ELSE cost.SS)}

\* the simplest case: the next cell is free; the cell left stays held until the next step.
simple_move(p, st, next_cell) ==
    LET here == st.location[p]
    IN {mark(enter([st EXCEPT !.personal_delay_counter[p] = @ + a,
                              !.borrowed_cells[p] = Append(@, here)], next_cell, p),
             "simple move") :
            a \in (IF is_aisle(W, here) THEN cost.AS ELSE cost.SS)}

\* mandatory_delay before the crossing terms: 0 with the south aisle cell free, else AA + AA.
aisle_shuffle(st, south_aisle_cell) ==
    IF south_aisle_cell # None /\ available(st, south_aisle_cell)
    THEN {0}
    ELSE {a1 + a2 : a1 \in cost.AA, a2 \in cost.AA}

\* self.borrowed_cells += [self.location] and, if free, the south aisle cell.
borrow_aisle(p, st, south_aisle_cell) ==
    LET st1 == [st EXCEPT !.borrowed_cells[p] = Append(@, st.location[p])]
    IN IF south_aisle_cell # None /\ available(st, south_aisle_cell)
       THEN [st1 EXCEPT !.borrowed_cells[p] = Append(@, south_aisle_cell),
                        !.current_occupant[south_aisle_cell] = p]
       ELSE st1

\* max (AA, SS) + AS + max (SS, AS)
cross_one_delay ==
    {Max(a, s1) + as1 + Max(s2, as2) :
        a \in cost.AA, s1 \in cost.SS, as1 \in cost.AS, s2 \in cost.SS, as2 \in cost.AS}

\* max (AA, SA, SS) + SA + AS + max (SA, SS) + max (SS, SS, AS)
cross_two_delay ==
    {Max(Max(a, sa1), s1) + sa2 + as1 + m1 + m2 :
        a \in cost.AA, sa1 \in cost.SA, s1 \in cost.SS, sa2 \in cost.SA, as1 \in cost.AS,
        m1 \in {Max(x, y) : x \in cost.SA, y \in cost.SS},
        m2 \in {Max(Max(x, y), z) : x \in cost.SS, y \in cost.SS, z \in cost.AS}}

\* max (SA, SS) + SA + AS + max (SS, AS)
swap_delay ==
    {Max(sa1, s1) + sa2 + as1 + Max(s2, as2) :
        sa1 \in cost.SA, s1 \in cost.SS, sa2 \in cost.SA, as1 \in cost.AS,
        s2 \in cost.SS, as2 \in cost.AS}

\* cross_one without the line that adds the delay to the crossed passenger.
cross_one_alone(p, st, direction) ==
    LET here == st.location[p]
        next_cell == W.connectors[here][direction]
        beyond == W.connectors[next_cell][direction]
        south_aisle_cell == W.connectors[here]["s"]
    IN IF beyond = None
       THEN {raise(st)}
       ELSE IF available(st, beyond)
       THEN {mark(enter([borrow_aisle(p, st, south_aisle_cell)
                             EXCEPT !.personal_delay_counter[p] = @ + b + d],
                        beyond, p), "cross one") :
                b \in aisle_shuffle(st, south_aisle_cell), d \in cross_one_delay}
       ELSE {mark(wait(st, p), "cross one wait")}

\* number_of_people_to_cross == 1, from an aisle cell.
cross_one(p, st, direction) ==
    LET here == st.location[p]
        next_cell == W.connectors[here][direction]
        beyond == W.connectors[next_cell][direction]
        south_aisle_cell == W.connectors[here]["s"]
        crossed == st.current_occupant[next_cell]
    IN IF beyond = None
       THEN {raise(st)}
       ELSE IF available(st, beyond)
       THEN {mark(enter([borrow_aisle(p, st, south_aisle_cell)
                             EXCEPT !.personal_delay_counter =
                                 [[@ EXCEPT ![p] = @ + b + d] EXCEPT ![crossed] = @ + b + d]],
                        beyond, p), "cross one") :
                b \in aisle_shuffle(st, south_aisle_cell), d \in cross_one_delay}
       ELSE {mark(wait(st, p), "cross one wait")}

\* cross_two without the line that adds the delay to the second crossed passenger.
cross_two_first_only(p, st, direction) ==
    LET here == st.location[p]
        next_cell == W.connectors[here][direction]
        south_aisle_cell == W.connectors[here]["s"]
        first == st.current_occupant[next_cell]
    IN IF available(st, W.target[p])
       THEN {mark(enter([borrow_aisle(p, st, south_aisle_cell)
                             EXCEPT !.personal_delay_counter =
                                 [[@ EXCEPT ![p] = @ + b + d] EXCEPT ![first] = @ + b + d]],
                        W.target[p], p), "cross two") :
                b \in aisle_shuffle(st, south_aisle_cell), d \in cross_two_delay}
       ELSE {mark(wait(st, p), "cross two wait")}

\* number_of_people_to_cross == 2, from an aisle cell.
cross_two(p, st, direction) ==
    LET here == st.location[p]
        next_cell == W.connectors[here][direction]
        beyond == W.connectors[next_cell][direction]
        south_aisle_cell == W.connectors[here]["s"]
        first == st.current_occupant[next_cell]
        second == st.current_occupant[beyond]
    IN IF available(st, W.target[p])
       THEN {mark(enter([borrow_aisle(p, st, south_aisle_cell)
                             EXCEPT !.personal_delay_counter =
                                 [[[@ EXCEPT ![p] = @ + b + d] EXCEPT ![first] = @ + b + d]
                                     EXCEPT ![second] = @ + b + d]],
                        W.target[p], p), "cross two") :
                b \in aisle_shuffle(st, south_aisle_cell), d \in cross_two_delay}
       ELSE {mark(wait(st, p), "cross two wait")}

\* the crossing from a seat: the cell behind the mover is borrowed for the swap.
swap(p, st, direction) ==
    LET here == st.location[p]
        next_cell == W.connectors[here][direction]
        aisle_cell == W.connectors[here][opposite(direction)]
        other == st.current_occupant[next_cell]
    IN IF aisle_cell = None
       THEN {raise(st)}
       ELSE IF available(st, aisle_cell) /\ available(st, W.target[p])
               /\ st.personal_delay_counter[other] = 0
       THEN {mark(enter([st EXCEPT !.current_occupant[aisle_cell] = p,
                                   !.borrowed_cells[p] = @ \o <<aisle_cell, here>>,
                                   !.personal_delay_counter =
                                       [[@ EXCEPT ![p] = @ + d + s1]
                                           EXCEPT ![other] = @ + d + s2]],
                        W.target[p], p), "swap") :
                d \in swap_delay, s1 \in cost.SS, s2 \in cost.SS}
       ELSE {mark(wait(st, p), "swap wait")}

\* the east/west move of the find_seat phase, after any stowing.
seat_move(p, st) ==
    LET here == st.location[p]
        next_direction ==
            IF W.file[here] > W.file[W.target[p]] THEN "w"
            ELSE IF W.file[here] < W.file[W.target[p]] THEN "e"
            ELSE "none"
    IN IF next_direction = "none" \/ here = W.target[p]
       THEN {st}
       ELSE LET next_cell == W.connectors[here][next_direction]
                number_of_people_to_cross == travel_until_empty(st, here, next_direction)
            IN IF next_cell = None THEN {st}
               ELSE IF available(st, next_cell) THEN simple_move(p, st, next_cell)
               ELSE IF number_of_people_to_cross = 0
                    THEN {mark(wait(st, p), "cross zero")}
               ELSE IF ~is_aisle(W, here) THEN swap(p, st, next_direction)
               ELSE IF number_of_people_to_cross = 1 THEN cross_one(p, st, next_direction)
               ELSE IF number_of_people_to_cross = 2 THEN cross_two(p, st, next_direction)
               ELSE {debug_error(st, "Too many people to handle crossing process")}

\* if self.seek_phase == boarder.find_seat: ...
step_find_seat(p, st) ==
    IF st.crashed \/ st.seek_phase[p] # find_seat
    THEN {st}
    ELSE UNION {seat_move(p, s1) : s1 \in stow(p, st)}

\* step without the test of the delay counter.
step_eager(p, st) ==
    LET s0 == release_borrowed(p, st)
    IN IF s0.location[p] # W.target[p] /\ s0.location[p] # None
       THEN UNION {UNION {step_find_seat(p, s2) : s2 \in step_find_row(p, s1)} :
                      s1 \in step_find_aisle(p, s0)}
       ELSE {s0}

\* boarder.step
step(p, st) ==
    IF st.personal_delay_counter[p] # 0
    THEN {st}
    ELSE LET s0 == release_borrowed(p, st)
         IN IF s0.location[p] # W.target[p] /\ s0.location[p] # None
            THEN UNION {UNION {step_find_seat(p, s2) : s2 \in step_find_row(p, s1)} :
                           s1 \in step_find_aisle(p, s0)}
            ELSE {s0}

(***************************************************************************)
(* simulation.run                                                          *)
(***************************************************************************)
\* history: the action taken last, the passenger it stepped or boarded, the branch of
\* step that acted and the borrowed cells the step gave back.
Did(action, passenger, branch, released) ==
    [action |-> action, passenger |-> passenger, did |-> branch, released |-> released]

\* list.remove (x): the first occurrence goes, if there is one.
RECURSIVE remove(_, _)
remove(l, x) ==
    IF l = <<>> THEN <<>>
    ELSE IF Head(l) = x THEN Tail(l)
    ELSE <<Head(l)>> \o remove(Tail(l), x)

\* remove_all with the removal forgotten.
remove_none(l, q) == l

\* remove_all that stops after the first passenger of the queue.
remove_first_only(l, q) == IF q = <<>> THEN l ELSE remove(l, Head(q))

\* for passenger in queue: if passenger in currently_unboarded: currently_unboarded.remove (passenger)
RECURSIVE remove_all(_, _)
remove_all(l, q) ==
    IF q = <<>> THEN l ELSE remove_all(remove(l, Head(q)), Tail(q))

\* for p in copy: if p.finished (): currently_unfinished.remove (p)
\* copy IS currently_unfinished: the iterator's index i moves on over the shrunken list.
RECURSIVE delete_loop(_, _, _)
delete_loop(st, l, i) ==
    IF i > Len(l) THEN l
    ELSE IF finished(st, l[i]) THEN delete_loop(st, remove(l, l[i]), i + 1)
    ELSE delete_loop(st, l, i + 1)

\* What a boarding policy may return: a non-empty list, without repetition, of
\* passengers of the unboarded list.
BoardingOrders(unboarded) ==
    {b \in UNION {[1..n -> Range(unboarded)] : n \in 1..Len(unboarded)} :
        \A i, j \in DOMAIN b : i # j => b[i] # b[j]}

\* single_entrance_manager.__init__ (self, self.aisles [0].head)
entrance == plane.aisles[1].head

\* available without the look at the entrance cell.
plane_available_unchecked == TRUE

\* single_entrance_manager.available
plane_available == current_occupant[entrance] = None

\* board with the occupant written directly, the way the crossing code borrows a cell.
board_unlocated(st, person) == [st EXCEPT !.current_occupant[entrance] = person]

\* single_entrance_manager.board
board(st, person) == enter(st, entrance, person)

\* the admission test without the question to the plane.
may_board_blind == Len(queue) > 0 /\ time > next_boarding

\* the admission test with >= for >.
may_board_at_once == Len(queue) > 0 /\ plane_available /\ time >= next_boarding

\* if len (queue) > 0 and self.plane.available () and time > next_boarding
may_board == Len(queue) > 0 /\ plane_available /\ time > next_boarding

LoopCondition ==
    Len(currently_unfinished) > 0 \/ Len(currently_unboarded) > 0 \/ Len(queue) > 0

PassengerVars ==
    <<current_occupant, current_load, location, personal_delay_counter, seek_phase,
      number_of_bags, borrowed_cells, needed_to_wait, errors, crashed>>

Static == <<plane, cost, time_step>>

\* queue += self.boarding_function (time, currently_unboarded), then the removals.
Enqueue ==
    /\ pc = "loop" /\ LoopCondition
    /\ Len(queue) = 0 /\ Len(currently_unboarded) > 0
    /\ \E batch \in BoardingOrders(currently_unboarded) :
          /\ queue' = queue \o batch
          /\ currently_unboarded' = remove_all(currently_unboarded, queue \o batch)
          /\ last' = Did("Enqueue", None, "nothing", {})
    /\ pc' = "board"
    /\ UNCHANGED <<Static, PassengerVars, currently_unfinished, retired, time,
                   next_boarding, delete_necessary, cursor>>

NoEnqueue ==
    /\ pc = "loop" /\ LoopCondition
    /\ ~(Len(queue) = 0 /\ Len(currently_unboarded) > 0)
    /\ pc' = "board"
    /\ last' = Did("NoEnqueue", None, "nothing", {})
    /\ UNCHANGED <<Static, PassengerVars, currently_unboarded, queue, currently_unfinished,
                   retired, time, next_boarding, delete_necessary, cursor>>

\* Board with queue.pop () for queue.pop (0): the last of the queue is admitted.
BoardLast ==
    /\ pc = "board" /\ time < MaxTime
    /\ may_board
    /\ LET passenger == queue[Len(queue)]
       IN /\ queue' = SubSeq(queue, 1, Len(queue) - 1)
          /\ currently_unfinished' = Append(currently_unfinished, passenger)
          /\ current_occupant' = board(Mem, passenger).current_occupant
          /\ location' = board(Mem, passenger).location
          /\ last' = Did("Board", passenger, "nothing", {})
    /\ \E d \in cost.boarding : next_boarding' = time + d
    /\ time' = time + time_step
    /\ delete_necessary' = FALSE
    /\ cursor' = 1
    /\ pc' = "step"
    /\ UNCHANGED <<Static, current_load, personal_delay_counter, seek_phase, number_of_bags,
                   borrowed_cells, needed_to_wait, errors, crashed, currently_unboarded,
                   retired>>

\* passenger = queue.pop (0); ...; self.plane.board (passenger); next_boarding = ...;
\* then time += time_step and delete_necessary = False.
Board ==
    /\ pc = "board" /\ time < MaxTime
    /\ may_board
    /\ LET passenger == Head(queue)
       IN /\ queue' = Tail(queue)
          /\ currently_unfinished' = Append(currently_unfinished, passenger)
          /\ current_occupant' = board(Mem, passenger).current_occupant
          /\ location' = board(Mem, passenger).location
          /\ last' = Did("Board", passenger, "nothing", {})
    /\ \E d \in cost.boarding : next_boarding' = time + d
    /\ time' = time + time_step
    /\ delete_necessary' = FALSE
    /\ cursor' = 1
    /\ pc' = "step"
    /\ UNCHANGED <<Static, current_load, personal_delay_counter, seek_phase, number_of_bags,
                   borrowed_cells, needed_to_wait, errors, crashed, currently_unboarded,
                   retired>>

NoBoard ==
    /\ pc = "board" /\ time < MaxTime
    /\ ~may_board
    /\ time' = time + time_step
    /\ delete_necessary' = FALSE
    /\ cursor' = 1
    /\ pc' = "step"
    /\ last' = Did("NoBoard", None, "nothing", {})
    /\ UNCHANGED <<Static, PassengerVars, currently_unboarded, queue, currently_unfinished,
                   retired, next_boarding>>

\* decrement without the lines that replace a negative counter by 0.
decrement_unfloored(st, p) ==
    [st EXCEPT !.personal_delay_counter[p] = @ - time_step]

\* p.personal_delay_counter -= time_step, floored at 0.
decrement(st, p) ==
    [st EXCEPT !.personal_delay_counter[p] = Max(@ - time_step, 0)]

\* one turn of: for p in currently_unfinished: decrement; p.step (); if p.finished (): ...
StepPassenger ==
    /\ pc = "step" /\ cursor <= Len(currently_unfinished)
    /\ LET p == currently_unfinished[cursor]
       IN \E st \in step(p, decrement(Mem, p)) :
             /\ current_occupant' = st.current_occupant
             /\ current_load' = st.current_load
             /\ location' = st.location
             /\ personal_delay_counter' = st.personal_delay_counter
             /\ seek_phase' = st.seek_phase
             /\ number_of_bags' = st.number_of_bags
             /\ borrowed_cells' = st.borrowed_cells
             /\ needed_to_wait' = st.needed_to_wait
             /\ errors' = st.errors
             /\ crashed' = st.crashed
             /\ delete_necessary' = (delete_necessary \/ (~st.crashed /\ finished(st, p)))
             /\ pc' = IF st.crashed THEN "crashed" ELSE "step"
             /\ last' = Did("StepPassenger", p, st.did, st.released)
    /\ cursor' = cursor + 1
    /\ UNCHANGED <<Static, currently_unboarded, queue, currently_unfinished, retired, time,
                   next_boarding>>

\* if delete_necessary: the removal loop.
Delete ==
    /\ pc = "step" /\ cursor > Len(currently_unfinished)
    /\ delete_necessary
    /\ currently_unfinished' = delete_loop(Mem, currently_unfinished, 1)
    /\ retired' = retired \cup (Range(currently_unfinished) \ Range(currently_unfinished'))
    /\ pc' = "loop"
    /\ last' = Did("Delete", None, "nothing", {})
    /\ UNCHANGED <<Static, PassengerVars, currently_unboarded, queue, time, next_boarding,
                   delete_necessary, cursor>>

NoDelete ==
    /\ pc = "step" /\ cursor > Len(currently_unfinished)
    /\ ~delete_necessary
    /\ pc' = "loop"
    /\ last' = Did("NoDelete", None, "nothing", {})
    /\ UNCHANGED <<Static, PassengerVars, currently_unboarded, queue, currently_unfinished,
                   retired, time, next_boarding, delete_necessary, cursor>>

\* the while condition fails: return time
Return ==
    /\ pc = "loop" /\ ~LoopCondition
    /\ pc' = "done"
    /\ last' = Did("Return", None, "nothing", {})
    /\ UNCHANGED <<Static, PassengerVars, currently_unboarded, queue, currently_unfinished,
                   retired, time, next_boarding, delete_necessary, cursor>>

\* The supplied functions, each a constant function: the set of values it may return.
CostModels ==
    {[SS |-> {ss}, AS |-> {as}, SA |-> {sa}, AA |-> {aa}, bin |-> {bn}, boarding |-> {bd}] :
        ss \in 0..MaxCost, as \in 0..MaxCost, sa \in 0..MaxCost, aa \in 0..MaxCost,
        bn \in BinDelays, bd \in BoardingDelays}

\* The state of every passenger, cell and bin after construction, and run's first lines.
Fresh ==
    /\ current_occupant = [c \in Cells(W) |-> None]
    /\ current_load = [b \in 1..W.bins |-> 0]
    /\ location = [p \in Passengers |-> None]
    /\ personal_delay_counter = [p \in Passengers |-> 0]
    /\ seek_phase = [p \in Passengers |-> find_aisle]
    /\ borrowed_cells = [p \in Passengers |-> <<>>]
    /\ needed_to_wait = [p \in Passengers |-> 0]
    /\ errors = {}
    /\ crashed = FALSE
    /\ queue = <<>>
    /\ currently_unfinished = <<>>
    /\ retired = {}
    /\ time = 0
    /\ next_boarding = 0
    /\ delete_necessary = FALSE
    /\ cursor = 1

Init ==
    /\ plane \in SimPlanes
    /\ cost \in CostModels
    /\ time_step \in TimeSteps
    /\ \E k \in BagCounts :
          /\ number_of_bags = [p \in Passengers |-> k]
          /\ k = 0 => cost.bin = {0}     \* without bags the bin function is never called
    /\ Fresh
    /\ currently_unboarded = plane.passengers
    /\ pc = "loop"
    /\ last = Did("Init", None, "nothing", {})

Next ==
    \/ Enqueue
    \/ NoEnqueue
    \/ Board
    \/ NoBoard
    \/ StepPassenger
    \/ Delete
    \/ NoDelete
    \/ Return

Spec == Init /\ [][Next]_vars

(***************************************************************************)
(* Construction alone: geometries are built, first one or two grids, then  *)
(* a combined or two-floor geometry of the two; nothing is simulated.      *)
(***************************************************************************)
Unbuilt ==
    [kind |-> "none", w |-> EmptyWorld, aisles |-> <<>>, start_location |-> None,
     passengers |-> <<>>, rows |-> 0, parts |-> <<>>]

InitGeo ==
    /\ plane = Unbuilt
    /\ cost = [SS |-> {0}, AS |-> {0}, SA |-> {0}, AA |-> {0}, bin |-> {0}, boarding |-> {0}]
    /\ time_step = 1
    /\ number_of_bags = <<>>
    /\ Fresh
    /\ currently_unboarded = <<>>
    /\ pc = "geometry"
    /\ last = Did("Init", None, "nothing", {})

Built(g, how) ==
    /\ plane' = g
    /\ last' = Did(how, None, "nothing", {})
    /\ UNCHANGED <<cost, time_step, PassengerVars, currently_unboarded, queue,
                   currently_unfinished, retired, time, next_boarding, delete_necessary,
                   pc, cursor>>

\* what the constructing program holds once g is built: g alone, or the grid built
\* before together with g, both in the heap of g.
Hold(held, g) ==
    IF held.kind = "none"
    THEN g
    ELSE [kind |-> "pair", w |-> g.w, aisles |-> <<>>, start_location |-> None,
          passengers |-> <<>>, rows |-> 0, parts |-> <<Part(held), Part(g)>>]

\* grid_plane_geometry (...): the first grid, or a second one beside it.
BuildGrid ==
    /\ plane.kind \in {"none", "grid"}
    /\ \E c \in GridConfigs :
          Built(Hold(plane, grid_plane_geometry(plane.w, c.rows, c.file_count_list,
                                                c.bin_row_span)),
                "BuildGrid")

\* combined_plane_geometry (north, south); north and south have as many aisles as each
\* other, as in the planes of the source.
BuildCombined ==
    /\ plane.kind = "pair"
    /\ Len(plane.parts[1].aisles) = Len(plane.parts[2].aisles)
    /\ Built(combined_plane_geometry(plane.w, plane.parts[1], plane.parts[2]),
             "BuildCombined")

\* two_floor_plane_geometry (lower, upper, ...)
BuildTwoFloor ==
    /\ plane.kind = "pair"
    /\ Built(two_floor_plane_geometry(plane.w, plane.parts[1], plane.parts[2]),
             "BuildTwoFloor")

NextGeo ==
    \/ BuildGrid
    \/ BuildCombined
    \/ BuildTwoFloor

SpecGeo == InitGeo /\ [][NextGeo]_vars

(***************************************************************************)
(* A tick that can change nothing but the clock and the wait counters.     *)
(***************************************************************************)
\* what a step leaves of a memory when the wait counters and the history are set aside.
Settled(st) == [st EXCEPT !.needed_to_wait = <<>>, !.did = "nothing", !.released = {}]

\* At the head of the loop: no policy call and no admission is possible now or after
\* ticks that change no cell, and each active passenger's step changes no cell, list,
\* phase, bag, bin or delay counter.  step reads neither the clock nor the wait counters,
\* so the same holds at the head of every later tick: run never returns.
Wedged ==
    /\ pc = "loop" /\ LoopCondition /\ ~crashed
    /\ ~(Len(queue) = 0 /\ Len(currently_unboarded) > 0)
    /\ Len(queue) > 0 => ~plane_available
    /\ \A i \in 1..Len(currently_unfinished) :
          LET p == currently_unfinished[i]
          IN /\ personal_delay_counter[p] = 0
             /\ ~finished(Mem, p)
             /\ \A st \in step(p, Mem) : Settled(st) = Settled(Mem)

(***************************************************************************)
(* Properties of the simulation and of the geometries.                     *)
(***************************************************************************)
\* the passenger run is about to step, when its counter reaches 0 in this tick: the step
\* acts.
ActingStep(p) ==
    /\ pc = "step" /\ cursor <= Len(currently_unfinished)
    /\ currently_unfinished[cursor] = p
    /\ personal_delay_counter[p] - time_step <= 0

Neighbours(c) == {W.connectors[c][d] : d \in directions} \ {None}

Stale(c) == current_occupant[c] # None /\ location[current_occupant[c]] # c

\* C1: for delay functions that return non-negative values, zero included, run terminates:
\* no run reaches the head of a tick from which every later tick changes nothing but the
\* clock and the wait counters, with passengers still to seat.
C1_RunTerminates == ~Wedged

\* C2: at every point of run each passenger of the roster is in exactly one of the
\* unboarded list, the queue, the active list and the retired passengers, none twice, so
\* the four sizes sum to the size of the roster.
C2_Conservation ==
    /\ Len(currently_unboarded) + Len(queue) + Len(currently_unfinished)
           + Cardinality(retired) = Len(plane.passengers)
    /\ \A p \in Range(plane.passengers) :
          Cardinality({k \in 1..4 :
              \/ k = 1 /\ p \in Range(currently_unboarded)
              \/ k = 2 /\ p \in Range(queue)
              \/ k = 3 /\ p \in Range(currently_unfinished)
              \/ k = 4 /\ p \in retired}) = 1

C2_Witness ==
    /\ retired # {} /\ Len(currently_unfinished) > 0 /\ Len(queue) > 0
    /\ Cardinality(retired) + Len(currently_unfinished) + Len(queue)
           = Len(plane.passengers)

\* C3: the occupant p of a cell c is located at c or has c in its borrowed list, and the
\* cell a boarded passenger is located at has that passenger as its occupant.
C3_OccupancyConsistency ==
    /\ \A c \in Cells(W) :
          current_occupant[c] # None =>
              \/ location[current_occupant[c]] = c
              \/ c \in Range(borrowed_cells[current_occupant[c]])
    /\ \A p \in Passengers :
          location[p] # None => current_occupant[location[p]] = p

C3_Witness ==
    \E c \in Cells(W) :
        /\ Stale(c)
        /\ c \in Range(borrowed_cells[current_occupant[c]])
        /\ \E q \in Passengers : q # current_occupant[c] /\ location[q] # None

\* C4: no two boarded passengers are located at the same cell, and a passenger whose
\* location changes enters a cell that had no occupant just before.
C4_LocationExclusion ==
    /\ [](\A p, q \in Passengers :
             p # q /\ location[p] # None => location[p] # location[q])
    /\ [][\A p \in Passengers :
             location'[p] # location[p] =>
                 location'[p] # None /\ current_occupant[location'[p]] = None]_vars

C4_Witness ==
    /\ last.action = "StepPassenger"
    /\ last.did \in {"cross one", "cross two", "swap"}
    /\ Cardinality({location[p] : p \in Passengers} \ {None}) = Len(plane.passengers)

\* C5: a step that acts first clears every cell of the passenger's borrowed list that
\* still has the passenger as occupant and empties the list, so after the step the list
\* holds only cells borrowed in that step: the cell the passenger stood on and a
\* neighbour of it.
C5_BorrowLifetime ==
    [][\A p \in Passengers :
          ActingStep(p) =>
              /\ last'.released =
                     {c \in Range(borrowed_cells[p]) : current_occupant[c] = p}
              /\ \A c \in Range(borrowed_cells[p]) :
                     current_occupant[c] = p /\ c \notin Range(borrowed_cells'[p])
                         => current_occupant'[c] = None
              /\ \A c \in Range(borrowed_cells'[p]) :
                     /\ c \in {location[p]} \cup Neighbours(location[p])
                     /\ current_occupant'[c] = p
                     /\ location'[p] # c /\ location'[p] # location[p]
              /\ borrowed_cells'[p] # <<>> => location[p] \in Range(borrowed_cells'[p])
              /\ Len(borrowed_cells'[p]) <= 2]_vars

C5_Witness ==
    /\ last.action = "StepPassenger"
    /\ last.released # {}
    /\ borrowed_cells[last.passenger] # <<>>
    /\ last.released \cap Range(borrowed_cells[last.passenger]) = {}

\* C6: no cell stays occupied for good by a passenger located elsewhere: when run
\* returns, the occupant of every occupied cell is located at that cell.
C6_NoStaleCellAtReturn ==
    pc = "done" => \A c \in Cells(W) : ~Stale(c)

\* C7: a passenger's phase never goes back, and a passenger for which finished () holds
\* (located at its target with delay counter 0) keeps it in every later state.
C7_PhaseMonotone ==
    [][\A p \in Passengers :
          /\ seek_phase'[p] >= seek_phase[p]
          /\ (location[p] = W.target[p] /\ personal_delay_counter[p] = 0)
                 => (location'[p] = W.target[p] /\ personal_delay_counter'[p] = 0)]_vars

\* C7, amended: a passenger's phase never goes back and a passenger located at its
\* target stays there; finished () turns false again only for a seated passenger that
\* another passenger's crossing (one, two or swap) adds delay to.
C7_PhaseMonotoneSeatKept ==
    [][\A p \in Passengers :
          /\ seek_phase'[p] >= seek_phase[p]
          /\ location[p] = W.target[p] => location'[p] = W.target[p]
          /\ (/\ location[p] = W.target[p] /\ personal_delay_counter[p] = 0
              /\ personal_delay_counter'[p] # 0)
                 => /\ last'.action = "StepPassenger"
                    /\ last'.did \in {"cross one", "cross two", "swap"}
                    /\ last'.passenger # p
                    /\ personal_delay_counter'[p] > 0]_vars

C7_Witness ==
    /\ last.action = "StepPassenger"
    /\ last.did \in {"cross one", "cross two", "swap"}
    /\ \E q \in retired :
          /\ q # last.passenger
          /\ location[q] = W.target[q] /\ seek_phase[q] = find_seat
          /\ personal_delay_counter[q] > 0

\* C8: connect (A, d, B) leaves B as A's neighbour in d and A as B's neighbour in
\* opposite (d), and in every geometry the constructors build, a cell's neighbour in a
\* direction has that cell as its neighbour in the opposite direction.
C8_GraphSymmetry ==
    /\ \A i \in 1..Len(W.calls) :
          LET self == W.calls[i][1]
              direction == W.calls[i][2]
              destination == W.calls[i][3]
          IN /\ W.connectors[self][direction] = destination
             /\ W.connectors[destination][opposite(direction)] = self
    /\ \A a \in Cells(W), d \in directions :
          W.connectors[a][d] # None =>
              /\ W.connectors[a][d] \in Cells(W)
              /\ W.connectors[W.connectors[a][d]][opposite(d)] = a

C8_Witness ==
    /\ plane.kind \in {"combined", "two_floor"}
    /\ Len(W.calls) > 0
    /\ \E a \in Cells(W) :
          /\ W.connectors[a]["n"] # None /\ W.connectors[a]["s"] # None
          /\ W.connectors[a]["e"] # None /\ W.connectors[a]["w"] # None

\* the passenger run is about to step acts in the find_seat phase and finds the next
\* cell towards its seat held by a passenger located elsewhere: the case n = 0.
CrossZeroCase(p) ==
    /\ ActingStep(p)
    /\ seek_phase[p] = find_seat
    /\ location[p] # W.target[p]
    /\ W.file[location[p]] # W.file[W.target[p]]
    /\ LET x == W.connectors[location[p]]
                    [IF W.file[location[p]] > W.file[W.target[p]] THEN "w" ELSE "e"]
       IN /\ x # None
          /\ Stale(x)
          /\ current_occupant[x] # p

\* C9: in the case n = 0 the crossing changes no cell's occupant, no passenger's
\* location, no delay counter and no borrowed list, and adds 1 to the passenger's
\* needed_to_wait: the step leaves only that, the release of the passenger's own
\* borrowed cells, the tick's decrement and the stowing of its bags.
C9_CrossZeroOnlyWaits ==
    [][\A p \in Passengers :
          CrossZeroCase(p) =>
              /\ location' = location
              /\ seek_phase' = seek_phase
              /\ needed_to_wait' = [needed_to_wait EXCEPT ![p] = @ + 1]
              /\ borrowed_cells' = [borrowed_cells EXCEPT ![p] = <<>>]
              /\ \A c \in Cells(W) :
                     \/ current_occupant'[c] = current_occupant[c]
                     \/ /\ c \in Range(borrowed_cells[p]) /\ current_occupant[c] = p
                        /\ current_occupant'[c] = None
              /\ \A q \in Passengers \ {p} :
                     personal_delay_counter'[q] = personal_delay_counter[q]
              /\ number_of_bags[p] = 0 =>
                     /\ personal_delay_counter'[p] = 0
                     /\ current_load' = current_load]_vars

C9_Witness ==
    /\ last.action = "StepPassenger" /\ last.did = "cross zero"
    /\ needed_to_wait[last.passenger] > 0
    /\ borrowed_cells[last.passenger] = <<>>

\* the seat logic of find_seat runs in the step p is about to take: p is in find_seat, or
\* enters it in this step because it stands at its aisle and in its row.
SeatLogicRuns(p) ==
    /\ ActingStep(p)
    /\ location[p] # W.target[p]
    /\ \/ seek_phase[p] = find_seat
       \/ /\ seek_phase[p] = find_row
          /\ W.row[location[p]] = W.row[W.target[p]]
       \/ /\ seek_phase[p] = find_aisle
          /\ W.file[location[p]] = closest_aisle(p)
          /\ W.row[location[p]] = W.row[W.target[p]]
    /\ W.file[location[p]] # W.file[W.target[p]]

\* the direction of p's seat and the cells ahead of p in it.
Heading(p) == IF W.file[location[p]] > W.file[W.target[p]] THEN "w" ELSE "e"

Ahead(p) == W.connectors[location[p]][Heading(p)]

Beyond(p) == W.connectors[Ahead(p)][Heading(p)]

Located(c) == c # None /\ current_occupant[c] # None /\ location[current_occupant[c]] = c

\* what stowing adds to p's counter in the step p is about to take.
StowDelays(p) ==
    IF number_of_bags[p] > 0 /\ W.nearest_luggage_bin[location[p]] # None
    THEN load_delay(number_of_bags[p])
    ELSE {0}

\* p stands in an aisle cell with exactly one located passenger between it and a free cell.
CrossOneCase(p) ==
    /\ SeatLogicRuns(p)
    /\ is_aisle(W, location[p])
    /\ Located(Ahead(p))
    /\ Beyond(p) # None /\ current_occupant[Beyond(p)] = None

\* C11 (n = 1, the step): the crossing adds one and the same amount to the mover's and to
\* the crossed passenger's counter, the crossed passenger stays where it is, the mover
\* stands on the cell beyond it and keeps its former aisle cell as a borrowed cell.
CrossOneStep ==
    \A p \in Passengers :
        CrossOneCase(p) =>
            LET crossed == current_occupant[Ahead(p)]
                amount == personal_delay_counter'[crossed] - personal_delay_counter[crossed]
            IN /\ amount >= 0
               /\ \E load \in StowDelays(p) : personal_delay_counter'[p] = load + amount
               /\ location' = [location EXCEPT ![p] = Beyond(p)]
               /\ current_occupant'[Beyond(p)] = p
               /\ current_occupant'[Ahead(p)] = crossed
               /\ location[p] \in Range(borrowed_cells'[p])
               /\ current_occupant'[location[p]] = p
               /\ \A q \in Passengers \ {p, crossed} :
                      personal_delay_counter'[q] = personal_delay_counter[q]


\* run executes its statements one after the other for as long as there is one to execute.
FairSpec == Spec /\ WF_vars(Next)

\* the passengers of the planes of SimPlanes, by number.
Roster == {1, 2, 3}

\* the step just taken was p's crossing of one passenger.
CrossedOne(p) ==
    last.action = "StepPassenger" /\ last.did = "cross one" /\ last.passenger = p

\* the run was followed up to MaxTime and could still go on from there.
Unfollowed == pc = "loop" /\ time >= MaxTime /\ LoopCondition /\ ~Wedged

\* C11: the n = 1 crossing step does what CrossOneStep says, and the mover is afterwards,
\* at some time, located at its target cell.
C11_CrossOne ==
    /\ [][CrossOneStep]_vars
    /\ \A p \in Roster :
          CrossedOne(p) ~> ((p \in Passengers /\ location[p] = W.target[p]) \/ Unfollowed)

C11_Witness ==
    \E p \in Passengers :
        /\ CrossedOne(p)
        /\ location[p] # W.target[p]
        /\ personal_delay_counter[p] > 0
        /\ \E q \in Passengers \ {p} :
              /\ personal_delay_counter[q] = personal_delay_counter[p]
              /\ location[q] = W.target[q]
              /\ W.connectors[location[q]][Heading(p)] = location[p]

\* C12: a tick admits at most one passenger, an admission takes place only at a time
\* greater than next_boarding, which is the time of the admission before it plus the
\* delay boarding_delay_function returned then, and nothing else sets next_boarding.
C12_AdmissionRate ==
    [][/\ Len(currently_unfinished') <= Len(currently_unfinished) + 1
       /\ Len(currently_unfinished') > Len(currently_unfinished) =>
              /\ time > next_boarding
              /\ time' > time
              /\ \E d \in cost.boarding : next_boarding' = time + d
       /\ next_boarding' # next_boarding =>
              Len(currently_unfinished') > Len(currently_unfinished)]_vars

C12_Witness ==
    /\ last.action = "NoBoard"
    /\ Len(queue) > 0 /\ plane_available
    /\ time - time_step <= next_boarding /\ next_boarding > 0
    /\ currently_unfinished # <<>>

\* the step logic of an earlier passenger of the active list has run in this tick.
StepLogicRan ==
    /\ pc = "step" /\ cursor > 1
    /\ last.action = "StepPassenger"
    /\ (last.did # "nothing" \/ last.released # {})

\* C13: within a tick the counters of all active passengers are decremented before any
\* passenger's step logic runs: once the step logic of a passenger has run, the turn of a
\* later passenger of the active list no longer lowers that passenger's counter.
C13_DecrementBeforeSteps ==
    [][(StepLogicRan /\ cursor <= Len(currently_unfinished)) =>
           personal_delay_counter'[currently_unfinished[cursor]]
               >= personal_delay_counter[currently_unfinished[cursor]]]_vars

\* C14: single_entrance_manager.available () is true exactly when the entrance cell has
\* no occupant, and board (p), which run calls only then, leaves p as the occupant of the
\* entrance cell and the entrance cell as p's location, and changes no other cell or
\* passenger.
C14_SingleEntrance ==
    /\ [](plane_available <=> current_occupant[entrance] = None)
    /\ [][Len(currently_unfinished') > Len(currently_unfinished) =>
             LET p == currently_unfinished'[Len(currently_unfinished')]
             IN /\ plane_available
                /\ p = Head(queue)
                /\ current_occupant' = [current_occupant EXCEPT ![entrance] = p]
                /\ location' = [location EXCEPT ![p] = entrance]]_vars

C14_Witness ==
    /\ last.action = "Board"
    /\ ~plane_available
    /\ location[last.passenger] = entrance
    /\ current_occupant[entrance] = last.passenger
    /\ \E q \in Passengers \ {last.passenger} : location[q] # None


(***************************************************************************)
(* model.py: multiple_entrance_manager over entrance cells that hold lists  *)
(* of occupants. Here current_occupant[e] is the list current_occupants of  *)
(* entrance cell e, personal_delay_counter[p] is p.delays_so_far, and       *)
(* cost.AA holds the value the cell's occupancy_delay_function returns.     *)
(***************************************************************************)
NumEntrances == 2

Entrances == 1..NumEntrances

Boarders == {1, 2, 3}

\* python 2 orders lists element by element, a proper prefix first.
RECURSIVE list_less(_, _)
list_less(a, b) ==
    IF b = <<>> THEN FALSE
    ELSE IF a = <<>> THEN TRUE
    ELSE IF Head(a) # Head(b) THEN Head(a) < Head(b)
    ELSE list_less(Tail(a), Tail(b))

\* min (lists): the first of the least lists.
min_list(lists) ==
    lists[CHOOSE i \in 1..Len(lists) :
              /\ \A j \in 1..Len(lists) : ~list_less(lists[j], lists[i])
              /\ \A j \in 1..(i - 1) : list_less(lists[i], lists[j])]

\* list == number: a list and a number are never equal in python.
list_equals_number(l, n) == FALSE

\* multiple_entrance_manager.available (): the least list of occupants compared with 0.
multiple_available(occupants) ==
    list_equals_number(min_list([e \in Entrances |-> occupants[e]]), 0)

\* multiple_entrance_manager.board (person): the name chooser_function is bound in
\* __init__ alone, so the call raises NameError before any cell is entered; the result
\* is the occupants left as they were and the exception.
multiple_board(occupants, person) ==
    [current_occupants |-> occupants, raised |-> "NameError"]

InitEntrances ==
    /\ plane = Unbuilt
    /\ cost \in {[SS |-> {0}, AS |-> {0}, SA |-> {0}, AA |-> {aa}, bin |-> {0},
                  boarding |-> {0}] : aa \in 0..MaxCost}
    /\ time_step = 1
    /\ number_of_bags = [p \in Boarders |-> 0]
    /\ current_occupant = [e \in Entrances |-> <<>>]
    /\ current_load = <<>>
    /\ location = [p \in Boarders |-> None]
    /\ personal_delay_counter = [p \in Boarders |-> 0]
    /\ seek_phase = [p \in Boarders |-> find_aisle]
    /\ borrowed_cells = [p \in Boarders |-> <<>>]
    /\ needed_to_wait = [p \in Boarders |-> 0]
    /\ errors = {}
    /\ crashed = FALSE
    /\ currently_unboarded = <<>>
    /\ queue = <<>>
    /\ currently_unfinished = <<>>
    /\ retired = {}
    /\ time = 0
    /\ next_boarding = 0
    /\ delete_necessary = FALSE
    /\ pc = "entrances"
    /\ cursor = 1
    /\ last = Did("Init", None, "nothing", {})

EntranceFrame ==
    UNCHANGED <<plane, cost, time_step, current_load, seek_phase, number_of_bags,
                borrowed_cells, needed_to_wait, errors, currently_unboarded, queue,
                currently_unfinished, retired, time, next_boarding, delete_necessary,
                cursor>>

\* node.enter (someone) on an entrance cell, for a passenger not yet on the plane.
EnterCell ==
    /\ pc = "entrances"
    /\ \E e \in Entrances, someone \in Boarders, d \in cost.AA :
          /\ location[someone] = None
          /\ current_occupant' = [current_occupant EXCEPT ![e] = Append(@, someone)]
          /\ location' = [location EXCEPT ![someone] = e]
          /\ personal_delay_counter' = [personal_delay_counter EXCEPT ![someone] = @ + d]
          /\ last' = Did("EnterCell", someone, "entered", {})
    /\ EntranceFrame
    /\ UNCHANGED <<crashed, pc>>

\* node.leave (someone) on the entrance cell someone is in.
LeaveCell ==
    /\ pc = "entrances"
    /\ \E e \in Entrances, someone \in Boarders :
          /\ someone \in Range(current_occupant[e])
          /\ current_occupant' = [current_occupant EXCEPT ![e] = remove(@, someone)]
          /\ last' = Did("LeaveCell", someone, "left", {})
    /\ EntranceFrame
    /\ UNCHANGED <<location, personal_delay_counter, crashed, pc>>

\* a call of available (); its result is kept in last.did.
ManagerAvailable ==
    /\ pc = "entrances"
    /\ last' = Did("available", None,
                   IF multiple_available(current_occupant) THEN "True" ELSE "False", {})
    /\ EntranceFrame
    /\ UNCHANGED <<current_occupant, location, personal_delay_counter, crashed, pc>>

\* a call of board (person) for a passenger not yet on the plane.
ManagerBoard ==
    /\ pc = "entrances"
    /\ \E person \in Boarders :
          /\ location[person] = None
          /\ LET r == multiple_board(current_occupant, person)
             IN /\ current_occupant' = r.current_occupants
                /\ crashed' = (r.raised # "")
                /\ pc' = IF r.raised # "" THEN "raised" ELSE pc
                /\ last' = Did("board", person, r.raised, {})
    /\ EntranceFrame
    /\ UNCHANGED <<location, personal_delay_counter>>

NextEntrances ==
    \/ EnterCell
    \/ LeaveCell
    \/ ManagerAvailable
    \/ ManagerBoard

SpecEntrances == InitEntrances /\ [][NextEntrances]_vars

\* C15: available () of multiple_entrance_manager is true exactly when at least one
\* entrance cell has no occupants, and board (p) puts p on an entrance cell that had the
\* fewest occupants of all.
C15_MultipleEntrance ==
    /\ last.action = "available" =>
           (last.did = "True" <=> \E e \in Entrances : current_occupant[e] = <<>>)
    /\ last.action = "board" =>
           \E e \in Entrances :
              /\ ~crashed
              /\ location[last.passenger] = e
              /\ current_occupant[e] # <<>>
              /\ current_occupant[e][Len(current_occupant[e])] = last.passenger
              /\ \A f \in Entrances : Len(current_occupant[e]) - 1 <= Len(current_occupant[f])


\* the aisle cell south of p exists and is free once p has given back what it borrowed.
SouthFree(p) ==
    LET south_aisle_cell == W.connectors[location[p]]["s"]
    IN /\ south_aisle_cell # None
       /\ \/ current_occupant[south_aisle_cell] = None
          \/ /\ current_occupant[south_aisle_cell] = p
             /\ south_aisle_cell \in Range(borrowed_cells[p])

\* C16: the delay a crossing of one passenger adds to the mover, beyond the delay of
\* stowing in the same step, is base + max (AA, SS) + AS + SA, where base is 0 if the
\* aisle cell south of the mover exists and is free and AA + AA otherwise.
C16_CrossOneDelay ==
    [][\A p \in Passengers :
          (CrossOneCase(p) /\ location'[p] = Beyond(p)) =>
              \E load \in StowDelays(p), aa1 \in cost.AA, aa2 \in cost.AA, aa \in cost.AA,
                 ss \in cost.SS, as \in cost.AS, sa \in cost.SA :
                 personal_delay_counter'[p] =
                     load + (IF SouthFree(p) THEN 0 ELSE aa1 + aa2) + Max(aa, ss) + as + sa]_vars


(***************************************************************************)
(* A bank of four seats west of one aisle, and a seat-seat cost that is    *)
(* either constant or returns 0 or 1 from call to call.                    *)
(***************************************************************************)
WidePlane == grid_plane_geometry(EmptyWorld, 1, <<4, 0>>, 2)

WideCostModels ==
    {[SS |-> ss, AS |-> {as}, SA |-> {0}, AA |-> {0}, bin |-> {0}, boarding |-> {0}] :
        ss \in {{0}, {1}, {0, 1}}, as \in 0..MaxCost}

InitWide ==
    /\ plane = WidePlane
    /\ cost \in WideCostModels
    /\ time_step \in TimeSteps
    /\ number_of_bags = [p \in Passengers |-> 0]
    /\ Fresh
    /\ currently_unboarded = plane.passengers
    /\ pc = "loop"
    /\ last = Did("Init", None, "nothing", {})

SpecWide == InitWide /\ [][Next]_vars


\* the cell after the two cells ahead of p.
Third(p) == W.connectors[Beyond(p)][Heading(p)]

\* p stands in an aisle cell and its step counts two passengers to cross: the two cells
\* ahead hold located passengers and the cell after them does not.
CrossTwoCase(p) ==
    /\ SeatLogicRuns(p)
    /\ is_aisle(W, location[p])
    /\ Located(Ahead(p))
    /\ Located(Beyond(p))
    /\ ~Located(Third(p))

\* a step of p that ends in a wait: p's wait counter goes up by one, nobody moves, no
\* counter but p's own (run's decrement, stowing) changes, and no cell changes but those
\* p gives back.
OnlyWaits(p) ==
    /\ needed_to_wait' = [needed_to_wait EXCEPT ![p] = @ + 1]
    /\ location' = location
    /\ personal_delay_counter'[p] \in StowDelays(p)
    /\ \A q \in Passengers \ {p} : personal_delay_counter'[q] = personal_delay_counter[q]
    /\ \A c \in Cells(W) :
          current_occupant'[c] # current_occupant[c] =>
              c \in Range(borrowed_cells[p]) /\ current_occupant'[c] = None

\* C17: a passenger in an aisle cell with two located passengers ahead crosses them only
\* if its target cell has no occupant; then one and the same amount is added to its
\* counter and to the counters of the two crossed passengers, it stands on its target
\* cell and the crossed passengers stay where they are; with the target occupied it
\* only waits.
C17_CrossTwo ==
    [][\A p \in Passengers :
          CrossTwoCase(p) =>
              LET first == current_occupant[Ahead(p)]
                  second == current_occupant[Beyond(p)]
                  amount == personal_delay_counter'[first] - personal_delay_counter[first]
              IN IF current_occupant[W.target[p]] = None
                 THEN /\ amount >= 0
                      /\ personal_delay_counter'[second] = personal_delay_counter[second] + amount
                      /\ \E load \in StowDelays(p) : personal_delay_counter'[p] = load + amount
                      /\ location' = [location EXCEPT ![p] = W.target[p]]
                      /\ current_occupant'[W.target[p]] = p
                      /\ needed_to_wait' = needed_to_wait
                      /\ \A q \in Passengers \ {p, first, second} :
                             personal_delay_counter'[q] = personal_delay_counter[q]
                 ELSE OnlyWaits(p)]_vars

C17_Witness ==
    /\ last.action = "StepPassenger" /\ last.did = "cross two wait"
    /\ LET p == last.passenger
       IN /\ is_aisle(W, location[p])
          /\ needed_to_wait[p] > 0
          /\ Located(Ahead(p)) /\ Located(Beyond(p))
          /\ current_occupant[W.target[p]] \notin {None, p}


\* the cell behind p, on the side of the aisle.
Behind(p) == W.connectors[location[p]][opposite(Heading(p))]

\* p stands in a seat and the next cell towards its target holds a located passenger.
SwapCase(p) ==
    /\ SeatLogicRuns(p)
    /\ ~is_aisle(W, location[p])
    /\ Located(Ahead(p))

\* the cell behind p is free once p has given back what it borrowed.
BehindFree(p) ==
    \/ current_occupant[Behind(p)] = None
    \/ /\ current_occupant[Behind(p)] = p
       /\ Behind(p) \in Range(borrowed_cells[p])

\* C18: a passenger in a seat whose next cell holds a located passenger moves only if
\* the cell behind it and its target cell have no occupant and the blocking passenger's
\* counter is 0; it then borrows the cell behind it and its seat, stands on its target
\* cell, and its counter and the blocking passenger's counter grow by the same amount
\* whatever the delay functions return; otherwise it only waits.
C18_Swap ==
    [][\A p \in Passengers :
          SwapCase(p) =>
              LET other == current_occupant[Ahead(p)]
              IN IF /\ BehindFree(p)
                    /\ current_occupant[W.target[p]] = None
                    /\ personal_delay_counter[other] = 0
                 THEN /\ borrowed_cells'[p] = <<Behind(p), location[p]>>
                      /\ current_occupant'[Behind(p)] = p
                      /\ location' = [location EXCEPT ![p] = W.target[p]]
                      /\ current_occupant'[W.target[p]] = p
                      /\ \E load \in StowDelays(p) :
                             personal_delay_counter'[p] - load
                                 = personal_delay_counter'[other] - personal_delay_counter[other]
                 ELSE OnlyWaits(p)]_vars


\* C19: at the end of every tick no passenger of the active list is finished (on its
\* target cell with counter 0), also when passengers next to each other in the list
\* finish in the same tick.
C19_FinishedRetired ==
    pc = "loop" =>
        \A i \in 1..Len(currently_unfinished) : ~finished(Mem, currently_unfinished[i])


\* C20: a counter that is positive, also the counter of a seated passenger that was
\* raised because another passenger crossed it, returns to 0 (in the runs followed to
\* their end), and when run returns every counter is 0.
C20_DelayServed ==
    /\ \A p \in Roster :
          (p \in Passengers /\ personal_delay_counter[p] > 0)
              ~> (personal_delay_counter[p] = 0 \/ Unfollowed)
    /\ [](pc = "done" => \A p \in Passengers : personal_delay_counter[p] = 0)


\* the turn about to be taken is the turn of p, whose counter stays positive after run's
\* decrement: step is called on a passenger that is inactive for the tick.
InactiveStep(p) ==
    /\ pc = "step" /\ cursor <= Len(currently_unfinished)
    /\ currently_unfinished[cursor] = p
    /\ personal_delay_counter[p] - time_step > 0

\* C21: a step call on a passenger whose delay counter is greater than 0 changes nothing:
\* its location, phase, bag count, borrowed list and wait counter, every cell's occupant,
\* every bin's load and every other passenger's counter stay as they are (its own counter
\* holds what run's decrement left).
C21_InactiveStep ==
    [][\A p \in Passengers :
          InactiveStep(p) =>
              /\ UNCHANGED <<location, seek_phase, number_of_bags, borrowed_cells,
                             needed_to_wait, current_occupant, current_load>>
              /\ personal_delay_counter' =
                     [personal_delay_counter EXCEPT ![p] = @ - time_step]]_vars

C21_Witness ==
    /\ last.action = "StepPassenger"
    /\ LET p == last.passenger
       IN /\ personal_delay_counter[p] > 0
          /\ location[p] # W.target[p]
          /\ borrowed_cells[p] # <<>>
          /\ last.did = "nothing" /\ last.released = {}


\* C22: the admission stage of a tick admits a passenger only if the queue is not empty,
\* the entrance cell has no occupant and time is greater than next_boarding; it then takes
\* the head of the queue off the queue, appends it to the active list, puts it on the
\* entrance cell and sets next_boarding to time plus a value of boarding_delay_function;
\* if one of the three conditions fails it leaves the queue, the active list and
\* next_boarding as they are.
C22_AdmissionStage ==
    [][(pc = "board" /\ pc' # "board") =>
          IF Len(queue) > 0 /\ current_occupant[entrance] = None /\ time > next_boarding
          THEN /\ queue' = Tail(queue)
               /\ currently_unfinished' = Append(currently_unfinished, Head(queue))
               /\ location'[Head(queue)] = entrance
               /\ \E d \in cost.boarding : next_boarding' = time + d
          ELSE UNCHANGED <<queue, currently_unfinished, next_boarding, location,
                           current_occupant>>]_vars

C22_Witness ==
    /\ last.action = "Board"
    /\ Len(queue) > 0
    /\ Len(currently_unfinished) > 1
    /\ next_boarding = time - time_step + 1
    /\ location[last.passenger] = entrance
    /\ last.passenger \notin Range(queue)


\* C23: passengers enter the active list in the order in which the policy's batches list
\* them: the queue changes only by a batch of unboarded passengers that the policy
\* returns to the empty queue, kept in the batch's order, or by the admission of its head,
\* which goes to the end of the active list; nobody is admitted in another way.
C23_FifoAdmission ==
    [][(queue' # queue \/ Len(currently_unfinished') > Len(currently_unfinished)) =>
          \/ /\ queue = <<>>
             /\ queue' \in BoardingOrders(currently_unboarded)
             /\ currently_unfinished' = currently_unfinished
          \/ /\ queue # <<>>
             /\ queue' = Tail(queue)
             /\ currently_unfinished' = Append(currently_unfinished, Head(queue))]_vars

C23_Witness ==
    /\ last.action = "Board"
    /\ Len(queue) > 0
    /\ last.passenger > queue[1]
    /\ Len(currently_unfinished) >= 2
    /\ currently_unfinished[Len(currently_unfinished) - 1] > last.passenger
    /\ currently_unfinished[Len(currently_unfinished)] = last.passenger


\* C24: the boarding policy is called in a tick exactly if at the start of the tick the
\* queue is empty and the unboarded list is not; after the call the passengers it returned
\* are in the queue and no longer in the unboarded list, and the others are in the
\* unboarded list as before; without a call both lists stay as they are.
C24_PolicyConsultation ==
    [][(pc = "loop" /\ pc' = "board") =>
          IF Len(queue) = 0 /\ Len(currently_unboarded) > 0
          THEN /\ last'.action = "Enqueue"
               /\ Range(queue') \subseteq Range(currently_unboarded)
               /\ currently_unboarded' =
                      SelectSeq(currently_unboarded, LAMBDA x : x \notin Range(queue'))
          ELSE /\ last'.action # "Enqueue"
               /\ UNCHANGED <<queue, currently_unboarded>>]_vars

C24_Witness ==
    /\ last.action = "Enqueue"
    /\ time > 0
    /\ Len(queue) >= 1
    /\ Len(currently_unboarded) > 0
    /\ Len(currently_unfinished) > 0


\* C25: if the policy has filled the queue in the first tick (time 0) and the entrance
\* cell is free, the admission stage of that tick admits the head of the queue.
C25_FirstAdmission ==
    [][(pc = "board" /\ pc' # "board" /\ time = 0 /\ Len(queue) > 0
           /\ current_occupant[entrance] = None) =>
          /\ currently_unfinished' = <<Head(queue)>>
          /\ queue' = Tail(queue)
          /\ location'[Head(queue)] = entrance]_vars


\* C26: with delay functions that return no negative value every passenger's delay
\* counter is at least 0 in every state, and the decrement of a tick takes time_step off
\* the counter and puts 0 in the place of a negative result: a passenger on its target
\* cell whose counter is at most time_step has the counter 0 after its turn.
C26_CounterFloor ==
    /\ [](\A p \in Passengers : personal_delay_counter[p] >= 0)
    /\ [][\A p \in Passengers :
             /\ InactiveStep(p) =>
                    personal_delay_counter'[p] = personal_delay_counter[p] - time_step
             /\ (ActingStep(p) /\ location[p] = W.target[p]) =>
                    personal_delay_counter'[p] = 0]_vars

C26_Witness ==
    /\ \A k \in {"SS", "AS", "SA", "AA", "bin"} : cost[k] = {0}
    /\ last.action = "StepPassenger"
    /\ last.did # "nothing"
    /\ needed_to_wait[last.passenger] >= 2
    /\ personal_delay_counter[last.passenger] = 0


\* the bags in the bins and in the passengers' hands.
BagTotal(load, bags) == SumSeq(load) + SumSeq(bags)

\* C27: the loads of all bins and the bag counts of all passengers add up to the total of
\* the initial state in every state, no bin's load goes down, and a passenger's bag count
\* changes only to 0, in a step of its own that is in the find_seat phase at a cell with
\* a bin, which receives the bags.
C27_BagConservation ==
    [][/\ BagTotal(current_load', number_of_bags') = BagTotal(current_load, number_of_bags)
       /\ \A b \in DOMAIN current_load : current_load'[b] >= current_load[b]
       /\ \A p \in Passengers :
             number_of_bags'[p] # number_of_bags[p] =>
                 LET bin == W.nearest_luggage_bin[location[p]]
                 IN /\ number_of_bags'[p] = 0
                    /\ ActingStep(p)
                    /\ seek_phase'[p] = find_seat
                    /\ bin # None
                    /\ current_load'[bin] = current_load[bin] + number_of_bags[p]]_vars

C27_Witness ==
    /\ last.action = "StepPassenger"
    /\ \E b \in DOMAIN current_load : current_load[b] > 0
    /\ number_of_bags[last.passenger] = 0
    /\ personal_delay_counter[last.passenger] > 0
    /\ \E q \in Passengers : number_of_bags[q] > 0 /\ location[q] # None


(***************************************************************************)
(* Planes of two floors that board through one entrance: a plane class     *)
(* over two_floor_plane_geometry that, as the plane classes of one floor   *)
(* do, hands the head of the first aisle (lower_geometry.aisles [0].head,  *)
(* which is start_location) to single_entrance_manager.  The upper floor   *)
(* has its aisle one file further east than the lower one.  A grid of one  *)
(* floor stands beside it.                                                 *)
(***************************************************************************)
single_entrance_floors(c1, c2) ==
    [two_floor_grids(c1, c2) EXCEPT
        !.aisles = grid_plane_geometry(EmptyWorld, c1.rows, c1.file_count_list,
                                       c1.bin_row_span).aisles]

FloorPlanes ==
    { single_entrance_floors(Grid(1, <<1, 0>>, 2), Grid(1, <<2, 0>>, 2)),
      grid_plane_geometry(EmptyWorld, 2, <<1, 0>>, 2) }

FloorCostModels ==
    {[SS |-> {0}, AS |-> {as}, SA |-> {0}, AA |-> {aa}, bin |-> {0}, boarding |-> {0}] :
        as \in 0..MaxCost, aa \in 0..MaxCost}

InitFloors ==
    /\ plane \in FloorPlanes
    /\ cost \in FloorCostModels
    /\ time_step \in TimeSteps
    /\ number_of_bags = [p \in Passengers |-> 0]
    /\ Fresh
    /\ currently_unboarded = plane.passengers
    /\ pc = "loop"
    /\ last = Did("Init", None, "nothing", {})

SpecFloors == InitFloors /\ [][Next]_vars

\* the direction p's step chooses in the phase it is in, "none" if it chooses none.
ChosenDirection(p) ==
    LET here == location[p]
        target == W.target[p]
    IN IF seek_phase[p] = find_aisle /\ W.file[here] # closest_aisle(p)
       THEN (IF W.file[here] < closest_aisle(p) THEN "e" ELSE "w")
       ELSE IF seek_phase[p] \in {find_aisle, find_row} /\ W.row[here] # W.row[target]
       THEN (IF W.row[here] < W.row[target] THEN "s" ELSE "n")
       ELSE IF W.file[here] # W.file[target]
       THEN (IF W.file[here] > W.file[target] THEN "w" ELSE "e")
       ELSE "none"

\* p is about to take a step whose chosen direction has no connector at p's cell.
NoConnectorStep(p) ==
    /\ ActingStep(p)
    /\ location[p] \notin {None, W.target[p]}
    /\ ChosenDirection(p) # "none"
    /\ W.connectors[location[p]][ChosenDirection(p)] = None

\* C28: in each of the phases a step whose chosen direction has no connector at the
\* passenger's cell leaves the passenger where it is and changes no cell's occupant (but
\* for the borrowed cells the passenger gives back), and it does not end the run.
C28_NoConnectorNoOp ==
    [][\A p \in Passengers :
          NoConnectorStep(p) =>
              /\ location' = location
              /\ \A c \in Cells(W) :
                    current_occupant'[c] # current_occupant[c] =>
                        c \in Range(borrowed_cells[p]) /\ current_occupant'[c] = None
              /\ ~crashed'
              /\ pc' = "step"]_vars


(***************************************************************************)
(* Grids of one seat row with the seat banks of airbus_320 (3, 3) and of   *)
(* the two grids of boeing_767_200 and boeing_767_400, (2, 2, 2) and       *)
(* (2, 3, 2): every aisle but the last is bridged to the next one in the   *)
(* seat row, and every delay function returns 1, so that a passenger is    *)
(* still counting down when it reaches its seat and gives its borrowed     *)
(* cells back before it retires.                                           *)
(***************************************************************************)
BankPlanes ==
    {grid_plane_geometry(EmptyWorld, 1, f, 2) : f \in {<<3, 3>>, <<2, 2, 2>>, <<2, 3, 2>>}}

BankCostModels ==
    {[SS |-> {1}, AS |-> {1}, SA |-> {1}, AA |-> {1}, bin |-> {0}, boarding |-> {0}]}

InitBanks ==
    /\ plane \in BankPlanes
    /\ cost \in BankCostModels
    /\ time_step \in TimeSteps
    /\ number_of_bags = [p \in Passengers |-> 0]
    /\ Fresh
    /\ currently_unboarded = plane.passengers
    /\ pc = "loop"
    /\ last = Did("Init", None, "nothing", {})

SpecBanks == InitBanks /\ [][Next]_vars

\* the east/west direction from p's cell to the file of its seat, "none" in that file.
SeatDirection(p) ==
    IF W.file[location[p]] > W.file[W.target[p]] THEN "w"
    ELSE IF W.file[location[p]] < W.file[W.target[p]] THEN "e"
    ELSE "none"

\* p's step is about to reach the find_seat phase in an aisle cell with another passenger
\* holding the next cell toward its seat: it evaluates travel_until_empty.
EvaluatesCrossing(p) ==
    /\ ActingStep(p)
    /\ location[p] \notin {None, W.target[p]}
    /\ is_aisle(W, location[p])
    /\ \/ seek_phase[p] = find_seat
       \/ seek_phase[p] = find_row /\ W.row[location[p]] = W.row[W.target[p]]
    /\ SeatDirection(p) # "none"
    /\ W.connectors[location[p]][SeatDirection(p)] # None
    /\ current_occupant[W.connectors[location[p]][SeatDirection(p)]] \notin {None, p}

\* self.location.travel_until_empty (self.next_direction) [0]
CrossingCount(p) == travel_until_empty(Mem, location[p], SeatDirection(p))

\* C29: whenever a passenger in an aisle cell in the find_seat phase counts the people it
\* has to cross toward its seat the count is 0, 1 or 2, and the error "Too many people to
\* handle crossing process" is never written.
C29_CrossingCount ==
    /\ "Too many people to handle crossing process" \notin errors
    /\ \A p \in Passengers : EvaluatesCrossing(p) => CrossingCount(p) \in {0, 1, 2}

C29_Witness ==
    \E p \in Passengers :
        /\ EvaluatesCrossing(p)
        /\ CrossingCount(p) = 2

\* C30: whenever a passenger gives its borrowed cells back each of them still has that
\* passenger as occupant: every cell of a borrowed list is held by the owner of the list,
\* no list holds a cell twice, and the error "Inconsistency in cell ownership" is never
\* written.
C30_OwnershipConsistent ==
    /\ "Inconsistency in cell ownership" \notin errors
    /\ \A p \in Passengers :
          \A i \in DOMAIN borrowed_cells[p] :
              /\ current_occupant[borrowed_cells[p][i]] = p
              /\ \A j \in DOMAIN borrowed_cells[p] :
                    i # j => borrowed_cells[p][i] # borrowed_cells[p][j]

C30_Witness ==
    /\ last.action = "StepPassenger"
    /\ Cardinality(last.released) = 2
    /\ \A c \in last.released : current_occupant[c] # last.passenger
    /\ \E q \in Passengers : q # last.passenger /\ borrowed_cells[q] # <<>>

\* p's step acts, with p boarded and not at its target cell.
ActiveStepAway(p) ==
    /\ ActingStep(p)
    /\ location[p] \notin {None, W.target[p]}

C32_EveryoneSeated ==
    pc = "done" =>
        \A p \in Passengers :
            /\ location[p] = W.target[p]
            /\ current_occupant[W.target[p]] = p

C32_Witness ==
    /\ pc = "done"
    /\ Cardinality(Passengers) >= 3
    /\ \E p \in Passengers : needed_to_wait[p] > 0

\* self.plane.passengers during run: currently_unboarded = self.plane.passengers binds the
\* second name to the same list, so the two always hold the same passengers.
plane_passengers == currently_unboarded

\* C33: run takes no passenger off the roster of the plane: when run has returned,
\* plane.passengers still holds every passenger created with the plane.
C33_RosterPreserved ==
    pc = "done" => Range(plane_passengers) = Passengers

\* the while loops of nearest_aisle: walk from c in direction d while the next cell exists
\* and is not an aisle cell; <<steps walked, cell reached>>.
RECURSIVE offshoot(_, _, _)
offshoot(w, c, d) ==
    LET x == w.connectors[c][d]
    IN IF x # None /\ ~is_aisle(w, x)
       THEN LET r == offshoot(w, x, d) IN <<r[1] + 1, r[2]>>
       ELSE <<0, c>>

\* node.nearest_aisle
nearest_aisle(w, c) ==
    IF is_aisle(w, c)
    THEN <<0, c>>
    ELSE LET west == offshoot(w, c, "w")
             east == offshoot(w, c, "e")
         IN IF w.connectors[west[2]]["w"] = None THEN east
            ELSE IF w.connectors[east[2]]["e"] = None THEN west
            ELSE IF east[1] < west[1] THEN east
            ELSE west

\* walking from seat c in direction d ends next to an aisle cell.
ReachesAisle(w, c, d) == w.connectors[offshoot(w, c, d)[2]][d] # None

\* C34: for a seat, nearest_aisle returns the result of the one direction that reaches an
\* aisle; if both do, that of the smaller step count, and that of the east side when the
\* two counts are equal.
C34_NearestAisle ==
    \A c \in Cells(W) :
        ~is_aisle(W, c) =>
            LET west == offshoot(W, c, "w")
                east == offshoot(W, c, "e")
            IN /\ (ReachesAisle(W, c, "e") /\ ~ReachesAisle(W, c, "w")) =>
                      nearest_aisle(W, c) = east
               /\ (ReachesAisle(W, c, "w") /\ ~ReachesAisle(W, c, "e")) =>
                      nearest_aisle(W, c) = west
               /\ (ReachesAisle(W, c, "w") /\ ReachesAisle(W, c, "e")) =>
                      nearest_aisle(W, c) = (IF east[1] <= west[1] THEN east ELSE west)

\* the grid BuildGrid builds from the parameters c in the heap at hand.
NewGrid(c) == grid_plane_geometry(plane.w, c.rows, c.file_count_list, c.bin_row_span)

\* this step builds the grid of parameters c.
BuildsGrid(c) ==
    /\ plane.kind \in {"none", "grid"}
    /\ plane' = Hold(plane, NewGrid(c))
    /\ last'.action = "BuildGrid"

\* row (i) of the grid g built from c is the whole physical row, west to east.
FullRow(g, c, i) ==
    LET r == row_of(g.w, g.aisles, i)
    IN /\ Len(r) = SumSeq(c.file_count_list) + Len(c.file_count_list) - 1
       /\ \A k \in 1..Len(r) : g.w.row[r[k]] = i /\ g.w.file[r[k]] = k - 1

\* C35: in a grid built with file_count_list f, row (i) for every i >= 1 holds
\* sum (f) + len (f) - 1 cells, all of row i, with the files 0, 1, 2, ... from west to
\* east.
C35_RowQuery ==
    [][\A c \in GridConfigs :
          BuildsGrid(c) => \A i \in 1..c.rows : FullRow(NewGrid(c), c, i)]_vars

C35_Witness ==
    /\ plane.kind = "grid"
    /\ plane.rows = 3
    /\ Len(plane.aisles) = 2
    /\ Len(row_of(W, plane.aisles, 2)) = 12

\* the cells the construction of g added to the heap it started from.
NewCells(g) == (Len(plane.w.row) + 1)..Len(g.w.row)

\* the passengers of g whose target is cell.
BoundTo(g, cell) == {p \in Range(g.passengers) : g.w.target[p] = cell}

\* C36: a grid built with R rows and file_count_list f has R * sum (f) passengers, every
\* seat cell of rows 1..R is the target of exactly one of them, and no aisle cell and no
\* cell of row 0 is a target.
C36_OnePassengerPerSeat ==
    [][\A c \in GridConfigs :
          BuildsGrid(c) =>
              LET g == NewGrid(c)
              IN /\ Len(g.passengers) = c.rows * SumSeq(c.file_count_list)
                 /\ Cardinality(Range(g.passengers)) = Len(g.passengers)
                 /\ \A cell \in NewCells(g) :
                       IF is_aisle(g.w, cell) \/ g.w.row[cell] = 0
                       THEN BoundTo(g, cell) = {}
                       ELSE /\ g.w.row[cell] \in 1..c.rows
                            /\ Cardinality(BoundTo(g, cell)) = 1]_vars

C36_Witness ==
    /\ plane.kind = "grid"
    /\ plane.rows = 3
    /\ Len(plane.aisles) = 2
    /\ Len(plane.passengers) = 14
    /\ \E cell \in Cells(W) : W.row[cell] = 0 /\ ~is_aisle(W, cell)

\* C37: in a combined geometry every sequence identifier of a passenger of the south
\* geometry is greater than every one of the north geometry, and the identifiers of the
\* combined roster are distinct from each other.
C37_SequenceContinues ==
    plane.kind = "combined" =>
        /\ \A n \in Range(plane.parts[1].passengers), s \in Range(plane.parts[2].passengers) :
              W.sequence_identifier[s] > W.sequence_identifier[n]
        /\ \A p, q \in Range(plane.passengers) :
              p # q => W.sequence_identifier[p] # W.sequence_identifier[q]


(***************************************************************************)
(* A plane of two floors that boards as airbus_380 does: board and         *)
(* available are those of two_floor_plane_geometry.  The lower floor has   *)
(* one seat a row, the upper floor two.                                    *)
(***************************************************************************)
\* self.lower_geometry.start_location
lower_start == plane.parts[1].start_location

\* self.upper_geometry.start_location
upper_start == plane.parts[2].start_location

\* board that sends everybody to the lower floor.
lower_board(st, passenger) == enter(st, lower_start, passenger)

\* two_floor_plane_geometry.board
two_floor_board(st, passenger) ==
    IF W.floor[W.target[passenger]] = "upper"
    THEN enter(st, upper_start, passenger)
    ELSE enter(st, lower_start, passenger)

\* two_floor_plane_geometry.available
two_floor_available ==
    current_occupant[upper_start] = None /\ current_occupant[lower_start] = None

\* if len (queue) > 0 and self.plane.available () and time > next_boarding
may_board_floor == Len(queue) > 0 /\ two_floor_available /\ time > next_boarding

BoardFloor ==
    /\ pc = "board" /\ time < MaxTime
    /\ may_board_floor
    /\ LET passenger == Head(queue)
       IN /\ queue' = Tail(queue)
          /\ currently_unfinished' = Append(currently_unfinished, passenger)
          /\ current_occupant' = two_floor_board(Mem, passenger).current_occupant
          /\ location' = two_floor_board(Mem, passenger).location
          /\ last' = Did("Board", passenger, "nothing", {})
    /\ \E d \in cost.boarding : next_boarding' = time + d
    /\ time' = time + time_step
    /\ delete_necessary' = FALSE
    /\ cursor' = 1
    /\ pc' = "step"
    /\ UNCHANGED <<Static, current_load, personal_delay_counter, seek_phase, number_of_bags,
                   borrowed_cells, needed_to_wait, errors, crashed, currently_unboarded,
                   retired>>

NoBoardFloor ==
    /\ pc = "board" /\ time < MaxTime
    /\ ~may_board_floor
    /\ time' = time + time_step
    /\ delete_necessary' = FALSE
    /\ cursor' = 1
    /\ pc' = "step"
    /\ last' = Did("NoBoard", None, "nothing", {})
    /\ UNCHANGED <<Static, PassengerVars, currently_unboarded, queue, currently_unfinished,
                   retired, next_boarding>>

TwoFloorPlanes == {two_floor_grids(Grid(1, <<1, 0>>, 2), Grid(1, <<2, 0>>, 2))}

TwoFloorCostModels ==
    {[SS |-> {1}, AS |-> {as}, SA |-> {1}, AA |-> {aa}, bin |-> {0}, boarding |-> bd] :
        as \in 0..MaxCost, aa \in 0..MaxCost, bd \in {{0}, {2}}}

InitTwoFloor ==
    /\ plane \in TwoFloorPlanes
    /\ cost \in TwoFloorCostModels
    /\ time_step \in TimeSteps
    /\ number_of_bags = [p \in Passengers |-> 0]
    /\ Fresh
    /\ currently_unboarded = plane.passengers
    /\ pc = "loop"
    /\ last = Did("Init", None, "nothing", {})

NextTwoFloor ==
    \/ Enqueue
    \/ NoEnqueue
    \/ BoardFloor
    \/ NoBoardFloor
    \/ StepPassenger
    \/ Delete
    \/ NoDelete
    \/ Return

SpecTwoFloor == InitTwoFloor /\ [][NextTwoFloor]_vars

\* C38: board (p) of a plane of two floors puts p on the start cell of the floor its
\* target cell is tagged with, the upper start cell for an upper target and the lower one
\* for every other, and leaves every other cell, the other floor's start cell among them,
\* as it was.
C38_TwoFloorDispatch ==
    [][\A p \in Passengers :
          (last'.action = "Board" /\ last'.passenger = p) =>
              LET start == IF W.floor[W.target[p]] = "upper" THEN upper_start
                           ELSE lower_start
              IN /\ W.floor[start] = W.floor[W.target[p]]
                 /\ location'[p] = start
                 /\ current_occupant'[start] = p
                 /\ \A c \in Cells(W) \ {start} : current_occupant'[c] = current_occupant[c]
                 /\ \A q \in Passengers \ {p} : location'[q] = location[q]]_vars

C38_Witness ==
    /\ last.action = "Board"
    /\ W.floor[W.target[last.passenger]] = "upper"
    /\ location[last.passenger] = upper_start
    /\ upper_start # lower_start
    /\ \E q \in Passengers : location[q] # None /\ W.floor[location[q]] = "lower"


(***************************************************************************)
(* model.py: the capacity-based variant.  A cell holds a list of           *)
(* occupants and a passenger is refused by a cell only when the cell is    *)
(* crowded or its delay is judged too long.  Here current_occupant[c] is   *)
(* the list current_occupants of cell c, personal_delay_counter[p] is      *)
(* p.delays_so_far, needed_to_wait[p] is p.irritability, retired is the    *)
(* set of passengers whose finished is True, and next_boarding is run's    *)
(* list not_caught_up.  Occupancies are counted in tenths of a person.     *)
(***************************************************************************)
\* run is followed up to this simulated time.
MaxClock == 400

\* the part of the state a passenger's step reads and writes; did is history.
Cabin ==
    [current_occupants |-> current_occupant,
     current_load |-> current_load,
     location |-> location,
     delays_so_far |-> personal_delay_counter,
     seek_phase |-> seek_phase,
     number_of_bags |-> number_of_bags,
     irritability |-> needed_to_wait,
     finished |-> retired,
     errors |-> errors,
     did |-> "nothing"]

\* number_of_bags_factor_function = lambda n: n * 0.3, in tenths.
number_of_bags_factor(st, p) == 3 * st.number_of_bags[p]

\* number_of_bags_delay_function = lambda n: n * 0.5 (whole for an even number of bags).
number_of_bags_delay(n) == n \div 2

\* sum ([1 + p.number_of_bags_factor () for p in self.current_occupants]), in tenths.
RECURSIVE crowd(_, _)
crowd(st, occupants) ==
    IF occupants = <<>> THEN 0
    ELSE 10 + number_of_bags_factor(st, Head(occupants)) + crowd(st, Tail(occupants))

\* aisle_occupancy_delay_function = lambda n: 1 + n**2 * max ([gauss, aisle_min_delay]):
\* the values it may return for n tenths; cost.aisle holds the values of the max.
aisle_occupancy_delay(n) == {1 + (n * n * a) \div 100 : a \in cost.aisle}

\* seat_occupancy_delay_function = lambda n: 2 + n**3 * gauss: the values it may
\* return for n tenths; cost.seat holds the values of the gauss.
seat_occupancy_delay(n) == {2 + (n * n * n * s) \div 1000 : s \in cost.seat}

\* node.current_delay: the cells of the aisles and of the bridge row (row 0) were built
\* with the aisle function, the seats with the seat function.
current_delay(st, c) ==
    IF is_aisle(W, c) \/ W.row[c] = 0
    THEN aisle_occupancy_delay(crowd(st, st.current_occupants[c]))
    ELSE seat_occupancy_delay(crowd(st, st.current_occupants[c]))

\* node.available, d being the value current_delay () returned.
node_available(st, c, d) == d >= 0 /\ crowd(st, st.current_occupants[c]) < 40

\* node.enter
node_enter(st, c, someone) ==
    LET entered == [st EXCEPT !.current_occupants[c] = Append(@, someone),
                              !.location[someone] = c]
    IN {[entered EXCEPT !.delays_so_far[someone] = @ + d] : d \in current_delay(entered, c)}

\* leave that takes nobody off the list.
node_leave_nobody(st, c, someone) == st

\* node.leave
node_leave(st, c, someone) ==
    [st EXCEPT !.current_occupants[c] = remove(@, someone)]

\* move_or_wait_decider_function of plane_generator; directions != directions.north
\* compares the class itself with one of its values and is always true.
move_or_wait_decider(direction, delay) ==
    \/ delay < 10 /\ (direction = "s" \/ direction = "n")
    \/ delay < 30 /\ direction # "s" /\ TRUE

\* the delay as a passenger of no irritability judges it.
patient_delay(delay, irritability) == delay

\* next.current_delay () - self.irritability / 100 (python 2: the quotient is whole)
irritated_delay(delay, irritability) == delay - irritability \div 100

\* boarder.move_if_possible
move_if_possible(p, st, next_direction) ==
    LET st1 == [st EXCEPT !.delays_so_far[p] =
                              @ + 1 + number_of_bags_delay(st.number_of_bags[p])]
        here == st1.location[p]
        next == W.connectors[here][next_direction]
    IN IF p \in st1.finished THEN {[st1 EXCEPT !.did = "finished"]}
       ELSE IF next # None
       THEN UNION {
                IF /\ move_or_wait_decider(next_direction,
                                           irritated_delay(d1, st1.irritability[p]))
                   /\ node_available(st1, next, d2)
                THEN {[s EXCEPT !.did = "moved"] :
                         s \in node_enter(node_leave([st1 EXCEPT !.irritability[p] = 0],
                                                     here, p), next, p)}
                ELSE {[st1 EXCEPT !.irritability[p] = @ + 1, !.did = "waited"]} :
                d1 \in current_delay(st1, next), d2 \in current_delay(st1, next)}
       ELSE {[st1 EXCEPT !.errors = @ \cup {"nonexistent path"},
                         !.did = "nonexistent path"]}

\* min ([[abs (a.file - self.target.file), a.file] for a in self.aisles_on_plane]) [1]
cabin_closest_aisle(p) ==
    LET tf == W.file[W.target[p]]
        files == Range(W.aisles_on_plane[p])
    IN CHOOSE f \in files :
          \A g \in files :
              Abs(f - tf) < Abs(g - tf) \/ (Abs(f - tf) = Abs(g - tf) /\ f <= g)

\* luggage_bin.load_delay: load_one_bag for each bag, each returning the load reached
\* times a value of the gauss of bin_load_delay_function (cost.bin).
RECURSIVE bin_load_delay(_, _)
bin_load_delay(load, additional_load) ==
    IF additional_load = 0 THEN {0}
    ELSE {(load + 1) * b + d : b \in cost.bin, d \in bin_load_delay(load + 1,
                                                                   additional_load - 1)}

\* if self.number_of_bags > 0 and self.location.nearest_luggage_bin: ...
cabin_stow(p, st) ==
    LET bin == W.nearest_luggage_bin[st.location[p]]
        bags == st.number_of_bags[p]
    IN IF bags > 0 /\ bin # None
       THEN {[st EXCEPT !.delays_so_far[p] = @ + d,
                        !.current_load[bin] = @ + bags,
                        !.number_of_bags[p] = 0] :
                d \in bin_load_delay(st.current_load[bin], bags)}
       ELSE {st}

\* boarder.step up to the call of move_if_possible: the phase the step ends in, the
\* next_direction it leaves and whether it found the seat.  "unset" stands for a
\* next_direction no statement has assigned yet.
seek(p, st) ==
    LET here == st.location[p]
        target == W.target[p]
        closest == cabin_closest_aisle(p)
        phase0 == st.seek_phase[p]
        seeks_aisle == phase0 = find_aisle
        direction1 == IF seeks_aisle /\ W.file[here] < closest THEN "e"
                      ELSE IF seeks_aisle /\ W.file[here] > closest THEN "w"
                      ELSE "unset"
        phase1 == IF seeks_aisle /\ W.file[here] = closest THEN find_row ELSE phase0
        seeks_row == phase1 = find_row
        direction2 == IF seeks_row /\ W.row[here] < W.row[target] THEN "s"
                      ELSE IF seeks_row /\ W.row[here] > W.row[target] THEN "n"
                      ELSE direction1
        phase2 == IF seeks_row /\ W.row[here] = W.row[target] THEN find_seat ELSE phase1
        seeks_seat == phase2 = find_seat
        direction3 == IF seeks_seat /\ W.file[here] > W.file[target] THEN "w"
                      ELSE IF seeks_seat /\ W.file[here] < W.file[target] THEN "e"
                      ELSE direction2
    IN [seek_phase |-> phase2,
        next_direction |-> direction3,
        found |-> seeks_seat /\ W.file[here] = W.file[target]]

\* boarder.step
boarder_step(p, st) ==
    IF st.location[p] = None \/ p \in st.finished THEN {st}
    ELSE LET sought == seek(p, st)
         IN UNION {move_if_possible(p,
                       [s EXCEPT !.seek_phase[p] = sought.seek_phase,
                                 !.finished = IF sought.found THEN @ \cup {p} ELSE @],
                       sought.next_direction) :
                   s \in IF sought.seek_phase = find_seat THEN cabin_stow(p, st) ELSE {st}}

\* random_loader: shuffle (unboarded_passengers), every order of the whole list.
Shuffles(l) ==
    {b \in [1..Len(l) -> Range(l)] : \A i, j \in 1..Len(l) : i # j => b[i] # b[j]}

\* filter (lambda p: p.delays_so_far < time, currently_unfinished)
RECURSIVE behind_clock(_, _, _)
behind_clock(l, delays, clock) ==
    IF l = <<>> THEN <<>>
    ELSE IF delays[Head(l)] < clock
         THEN <<Head(l)>> \o behind_clock(Tail(l), delays, clock)
         ELSE behind_clock(Tail(l), delays, clock)

CabinStatic == <<plane, cost, time_step, borrowed_cells, delete_necessary, crashed>>

\* queue += self.boarding_function (time, currently_unboarded), then the removals.
CabinEnqueue ==
    /\ pc = "loop" /\ LoopCondition
    /\ Len(queue) = 0 /\ Len(currently_unboarded) > 0
    /\ \E batch \in Shuffles(currently_unboarded) :
          /\ queue' = queue \o batch
          /\ currently_unboarded' = remove_all(currently_unboarded, queue \o batch)
    /\ pc' = "board"
    /\ last' = Did("CabinEnqueue", None, "nothing", {})
    /\ UNCHANGED <<CabinStatic, current_occupant, current_load, location,
                   personal_delay_counter, seek_phase, number_of_bags, needed_to_wait,
                   errors, currently_unfinished, retired, time, next_boarding, cursor>>

CabinNoEnqueue ==
    /\ pc = "loop" /\ LoopCondition
    /\ ~(Len(queue) = 0 /\ Len(currently_unboarded) > 0)
    /\ pc' = "board"
    /\ last' = Did("CabinNoEnqueue", None, "nothing", {})
    /\ UNCHANGED <<CabinStatic, current_occupant, current_load, location,
                   personal_delay_counter, seek_phase, number_of_bags, needed_to_wait,
                   errors, currently_unboarded, queue, currently_unfinished, retired,
                   time, next_boarding, cursor>>

\* single_entrance_manager.available of model.py
cabin_available == Len(current_occupant[entrance]) = 0

\* if len (queue) > 0 and self.plane.available (): the passenger is boarded, its clock
\* is set to the time and the time moves on by the boarding delay.
CabinBoard ==
    /\ pc = "board" /\ time < MaxClock
    /\ Len(queue) > 0 /\ cabin_available
    /\ LET passenger == Head(queue)
       IN \E st \in node_enter(Cabin, entrance, passenger), d \in cost.boarding :
             LET delays == [st.delays_so_far EXCEPT ![passenger] = time]
             IN /\ queue' = Tail(queue)
                /\ currently_unfinished' = Append(currently_unfinished, passenger)
                /\ current_occupant' = st.current_occupants
                /\ location' = st.location
                /\ personal_delay_counter' = delays
                /\ time' = time + d
                /\ next_boarding' = behind_clock(Append(currently_unfinished, passenger),
                                                 delays, time + d)
                /\ last' = Did("CabinBoard", passenger, "nothing", {})
    /\ cursor' = 1
    /\ pc' = "catch"
    /\ UNCHANGED <<CabinStatic, current_load, seek_phase, number_of_bags, needed_to_wait,
                   errors, currently_unboarded, retired>>

\* else: time += time_step
CabinTick ==
    /\ pc = "board" /\ time < MaxClock
    /\ ~(Len(queue) > 0 /\ cabin_available)
    /\ time' = time + time_step
    /\ next_boarding' = behind_clock(currently_unfinished, personal_delay_counter,
                                     time + time_step)
    /\ cursor' = 1
    /\ pc' = "catch"
    /\ last' = Did("CabinTick", None, "nothing", {})
    /\ UNCHANGED <<CabinStatic, current_occupant, current_load, location,
                   personal_delay_counter, seek_phase, number_of_bags, needed_to_wait,
                   errors, currently_unboarded, queue, currently_unfinished, retired>>

\* one turn of for passenger in not_caught_up: the list iterator's index moves on over
\* the list as the removals left it, and the for loop starts again (while) at its end.
CabinStep ==
    /\ pc = "catch" /\ Len(next_boarding) > 0
    /\ LET passenger == next_boarding[cursor]
       IN \E st \in boarder_step(passenger, Cabin) :
             LET caught_up == IF passenger \in st.finished \/ st.delays_so_far[passenger] >= time
                              THEN remove(next_boarding, passenger)
                              ELSE next_boarding
             IN /\ current_occupant' = st.current_occupants
                /\ current_load' = st.current_load
                /\ location' = st.location
                /\ personal_delay_counter' = st.delays_so_far
                /\ seek_phase' = st.seek_phase
                /\ number_of_bags' = st.number_of_bags
                /\ needed_to_wait' = st.irritability
                /\ retired' = st.finished
                /\ errors' = st.errors
                /\ next_boarding' = caught_up
                /\ currently_unfinished' = IF passenger \in st.finished
                                           THEN remove(currently_unfinished, passenger)
                                           ELSE currently_unfinished
                /\ cursor' = IF cursor + 1 > Len(caught_up) THEN 1 ELSE cursor + 1
                /\ last' = Did("CabinStep", passenger, st.did, {})
    /\ UNCHANGED <<CabinStatic, currently_unboarded, queue, time, pc>>

\* while len (not_caught_up) > 0 is over.
CabinCaughtUp ==
    /\ pc = "catch" /\ Len(next_boarding) = 0
    /\ pc' = "loop"
    /\ last' = Did("CabinCaughtUp", None, "nothing", {})
    /\ UNCHANGED <<CabinStatic, current_occupant, current_load, location,
                   personal_delay_counter, seek_phase, number_of_bags, needed_to_wait,
                   errors, currently_unboarded, queue, currently_unfinished, retired,
                   time, next_boarding, cursor>>

\* return time
CabinReturn ==
    /\ pc = "loop" /\ ~LoopCondition
    /\ pc' = "done"
    /\ last' = Did("CabinReturn", None, "nothing", {})
    /\ UNCHANGED <<CabinStatic, current_occupant, current_load, location,
                   personal_delay_counter, seek_phase, number_of_bags, needed_to_wait,
                   errors, currently_unboarded, queue, currently_unfinished, retired,
                   time, next_boarding, cursor>>

\* a seat bank of two (boeing_767's window bank), west of the aisle, in one row.
CabinPlanes == {grid_plane_geometry(EmptyWorld, 1, <<2, 0>>, 2)}

\* plane_generator's functions: the max of the aisle function at its mean 4, the gauss
\* of the seat function at its mean 15 and at 28, the boarding delay at 1 and 8.
CabinCostModels ==
    {[aisle |-> {4}, seat |-> {s}, bin |-> {3}, boarding |-> {b}] :
        s \in {15, 28}, b \in {1, 8}}

InitCabin ==
    /\ plane \in CabinPlanes
    /\ cost \in CabinCostModels
    /\ time_step = 1
    /\ number_of_bags = [p \in Passengers |-> 0]
    /\ current_occupant = [c \in Cells(W) |-> <<>>]
    /\ current_load = [b \in 1..W.bins |-> 0]
    /\ location = [p \in Passengers |-> None]
    /\ personal_delay_counter = [p \in Passengers |-> 0]
    /\ seek_phase = [p \in Passengers |-> find_aisle]
    /\ borrowed_cells = [p \in Passengers |-> <<>>]
    /\ needed_to_wait = [p \in Passengers |-> 0]
    /\ errors = {}
    /\ crashed = FALSE
    /\ currently_unboarded = plane.passengers
    /\ queue = <<>>
    /\ currently_unfinished = <<>>
    /\ retired = {}
    /\ time = 0
    /\ next_boarding = <<>>
    /\ delete_necessary = FALSE
    /\ pc = "loop"
    /\ cursor = 1
    /\ last = Did("Init", None, "nothing", {})

NextCabin ==
    \/ CabinEnqueue
    \/ CabinNoEnqueue
    \/ CabinBoard
    \/ CabinTick
    \/ CabinStep
    \/ CabinCaughtUp
    \/ CabinReturn

SpecCabin == InitCabin /\ [][NextCabin]_vars

\* the number of times p is on the list l.
Appearances(l, p) == Cardinality({i \in 1..Len(l) : l[i] = p})

\* C39: each boarded passenger is exactly once on the list of occupants of the cell it
\* is located at and on the list of no other cell.
C39_OccupantBookkeeping ==
    \A p \in Passengers :
        location[p] # None =>
            /\ Appearances(current_occupant[location[p]], p) = 1
            /\ \A c \in Cells(W) \ {location[p]} : Appearances(current_occupant[c], p) = 0

C39_Witness ==
    /\ last.action = "CabinStep" /\ last.did = "moved"
    /\ Len(current_occupant[location[last.passenger]]) = 2
    /\ \E q \in Passengers \ {last.passenger} :
          q \notin retired /\ location[q] = location[last.passenger]
    /\ current_occupant[entrance] = <<>>

\* run executes its statements one after the other for as long as there is one to execute.
FairCabin == SpecCabin /\ WF_vars(NextCabin)

\* p is boarded and unfinished, and c is the cell its next step will try to move into.
Awaits(p, c) ==
    /\ location[p] # None /\ p \notin retired
    /\ ~seek(p, Cabin).found
    /\ c # None
    /\ W.connectors[location[p]][seek(p, Cabin).next_direction] = c

\* C40: a boarded, unfinished passenger whose next cell exists keeps heading for that
\* cell until it moves into it, every boarded passenger is finished at some later time
\* (so that the passenger does move into the cell), and run returns.
C40_NoWaitingForever ==
    /\ [][\A p \in Passengers, c \in Cells(W) :
             Awaits(p, c) =>
                 \/ location'[p] = c
                 \/ location'[p] = location[p] /\ Awaits(p, c)']_vars
    /\ \A p \in Roster :
          (p \in Passengers /\ location[p] # None) ~> (p \in retired)
    /\ <>(pc = "done")

C40_Witness ==
    /\ last.action = "CabinStep" /\ last.did = "moved"
    /\ cost.seat = {28}
    /\ \E q \in Passengers \ {last.passenger} :
          q \in retired /\ location[q] = location[last.passenger]

=============================================================================
